---- MODULE Spec2Model ----
(***************************************************************************)
(* Model of the agent server action (src/src/app/actions.tsx) and of the   *)
(* daily usage counter it is gated by (src/unnamed/part_003, the redis     *)
(* module imported as "../lib/redis").                                     *)
(*                                                                         *)
(* Four specifications are given.  Spec follows ONE top-level invocation  *)
(* of getAgent through the quota gate and through every round of runAgent. *)
(* SpecRun follows one invocation of a TEST_MODE deployment, which skips   *)
(* the gate.  SpecGate follows NumInv concurrent invocations through the   *)
(* quota gate only (they share nothing but the stored counter).            *)
(* SpecCompiler follows one call of a function of the description         *)
(* compiler (src/src/app/toolConverterUtils.ts) on one input.              *)
(*                                                                         *)
(* Optional values (null / undefined / absent JSON keys) are written as a  *)
(* sequence: <<>> for absent, <<v>> for present.                           *)
(***************************************************************************)
EXTENDS Integers, Sequences, FiniteSets, TLC

VARIABLES
    pc,            \* pc[p]: where invocation p of getAgent stands
    testMode,      \* process.env.TEST_MODE === 'true'
    faultBudget,   \* the resource enumerations that may fail in this invocation
    redisClient,   \* the module-level `redis` of the counter module is not null
    usageCount,    \* the value stored under usage:<today> (0: no key)
    usageTtl,      \* the expiry set on that key, in seconds (<<>>: none set)
    newCount,      \* newCount[p]: <<n>>, what incrementDailyRunCounter returned to p
    gateLog,       \* gateLog[p]: the store operations invocation p performed
    result,        \* result[p]: the document getAgent returned to p's caller
    agentContext,  \* the AgentContext object of the invocation followed by Spec
    frames,        \* the active runAgent calls, outermost first (their locals)
    build,         \* the locals of the prepareAllTools call in progress
    registry,      \* the tool set prepareAllTools returned for the current round
    gen,           \* the generateText call in progress: the steps produced so far
    returned,      \* <<doc>>: the JSON document the last runAgent call returned
    connectLog,    \* every transport opened so far: <<round, url>> in order
    callsMade,     \* tool calls the model has made in this invocation
    stepsMade,     \* steps the model has produced in this invocation
    rounds,        \* runAgent calls started in this invocation
    bootstrapRounds, \* rounds whose steps held a call of a bootstrap tool
    conv,          \* a call of the description compiler: its input and its output
    callerContext, \* the context object the caller passed to getAgent
    roundSteps,    \* roundSteps[r]: the steps generateText returned in round r
    fetchLog,      \* <<round, url>> for every description fetched, in order
    readLog,       \* for every resource enumeration: its round, its server's url,
                   \* the resources read and whether it failed
    headerLog      \* headerLog[k]: the headers sent with transport connectLog[k]

gateVars == <<pc, testMode, faultBudget, redisClient, usageCount, usageTtl, newCount, gateLog, result>>
loopVars == <<agentContext, frames, build, registry, gen, returned, connectLog,
              callsMade, stepsMade, rounds, bootstrapRounds, callerContext,
              roundSteps, fetchLog, readLog, headerLog>>
vars == <<pc, testMode, faultBudget, redisClient, usageCount, usageTtl, newCount, gateLog, result, agentContext,
          frames, build, registry, gen, returned, connectLog, callsMade, stepsMade,
          rounds, bootstrapRounds, conv, callerContext, roundSteps, fetchLog, readLog,
          headerLog>>

Range(seq) == {seq[k] : k \in 1..Len(seq)}

(***************************************************************************)
(* Bounds of the model.                                                    *)
(***************************************************************************)
NumInv == 3        \* concurrent top-level invocations followed by SpecGate
DailyCap == 2      \* the value of DAILY_RUN_CAP in the modelled deployment

Procs == 1..NumInv

(***************************************************************************)
(* The usage counter module.                                               *)
(***************************************************************************)

\* one operation on the store, and whether the store answered it
Op(name, ok) == [op |-> name, ok |-> ok]

\* redis.expire(usageKey, 86400)
ExpirySeconds == 86400

\* checkRedisConnection: no client, or the outcome of redis.ping()
checkRedisConnection(client, pingOk) ==
    IF ~client THEN [connected |-> FALSE]
    ELSE IF pingOk THEN [connected |-> TRUE]
    ELSE [connected |-> FALSE]

\* checkDailyRunLimit comparing with > instead of >=
checkDailyRunLimit_offByOne(client, getOk, stored, dailyCap) ==
    IF ~client THEN [limitExceeded |-> FALSE, error |-> TRUE, currentUsage |-> 0]
    ELSE IF ~getOk THEN [limitExceeded |-> FALSE, error |-> TRUE, currentUsage |-> 0]
    ELSE IF stored > dailyCap
         THEN [limitExceeded |-> TRUE, error |-> FALSE, currentUsage |-> stored]
         ELSE [limitExceeded |-> FALSE, error |-> FALSE, currentUsage |-> stored]

\* checkDailyRunLimit(dailyCap): redis.get(usage:<today>), count >= dailyCap;
\* a missing client and a failed read both answer limitExceeded: false
checkDailyRunLimit(client, getOk, stored, dailyCap) ==
    IF ~client THEN [limitExceeded |-> FALSE, error |-> TRUE, currentUsage |-> 0]
    ELSE IF ~getOk THEN [limitExceeded |-> FALSE, error |-> TRUE, currentUsage |-> 0]
    ELSE IF stored >= dailyCap
         THEN [limitExceeded |-> TRUE, error |-> FALSE, currentUsage |-> stored]
         ELSE [limitExceeded |-> FALSE, error |-> FALSE, currentUsage |-> stored]

\* incrementDailyRunCounter setting the expiry at every increment
incrementDailyRunCounter_expireAlways(client, incrOk, expireOk, stored, ttl) ==
    IF ~client THEN [newCount |-> 1, stored |-> stored, ttl |-> ttl, ops |-> <<>>]
    ELSE IF ~incrOk
         THEN [newCount |-> 1, stored |-> stored, ttl |-> ttl, ops |-> <<Op("incr", FALSE)>>]
    ELSE IF expireOk
         THEN [newCount |-> stored + 1, stored |-> stored + 1, ttl |-> <<ExpirySeconds>>,
               ops |-> <<Op("incr", TRUE), Op("expire", TRUE)>>]
         ELSE [newCount |-> 1, stored |-> stored + 1, ttl |-> ttl,
               ops |-> <<Op("incr", TRUE), Op("expire", FALSE)>>]

\* incrementDailyRunCounter: redis.incr(usage:<today>); a missing client and a
\* failed increment both return the "safe default" 1 and store nothing
\* lines 144-147: redis.expire(usageKey, 86400) when the new count is 1; when
\* it rejects the count is stored, no expiry is, and the catch returns 1
incrementDailyRunCounter(client, incrOk, expireOk, stored, ttl) ==
    IF ~client THEN [newCount |-> 1, stored |-> stored, ttl |-> ttl, ops |-> <<>>]
    ELSE IF ~incrOk
         THEN [newCount |-> 1, stored |-> stored, ttl |-> ttl, ops |-> <<Op("incr", FALSE)>>]
    ELSE IF stored + 1 = 1
         THEN IF expireOk
              THEN [newCount |-> stored + 1, stored |-> stored + 1, ttl |-> <<ExpirySeconds>>,
                    ops |-> <<Op("incr", TRUE), Op("expire", TRUE)>>]
              ELSE [newCount |-> 1, stored |-> stored + 1, ttl |-> ttl,
                    ops |-> <<Op("incr", TRUE), Op("expire", FALSE)>>]
    ELSE [newCount |-> stored + 1, stored |-> stored + 1, ttl |-> ttl,
          ops |-> <<Op("incr", TRUE)>>]

(***************************************************************************)
(* The documents getAgent returns from the quota gate.                     *)
(***************************************************************************)
\* nothing returned yet (kind "none"), or the promise rejected (kind "threw")
NoResult ==
    [kind |-> "none", error |-> FALSE, redisError |-> FALSE, dailyCap |-> <<>>,
     currentUsage |-> <<>>, steps |-> <<>>, usage |-> <<>>, answer |-> <<>>,
     agentContext |-> <<>>]

\* lines 110-117
RedisErrorResult(ctx) ==
    [kind |-> "redisError", error |-> TRUE, redisError |-> TRUE, dailyCap |-> <<>>,
     currentUsage |-> <<>>, steps |-> <<>>, usage |-> <<>>, answer |-> <<>>,
     agentContext |-> <<ctx>>]

\* lines 127-135
QuotaResult(dailyCap, currentUsage, ctx) ==
    [kind |-> "quota", error |-> TRUE, redisError |-> FALSE, dailyCap |-> <<dailyCap>>,
     currentUsage |-> <<currentUsage>>, steps |-> <<>>, usage |-> <<>>, answer |-> <<>>,
     agentContext |-> <<ctx>>]

(***************************************************************************)
(* getAgent, lines 97-143: the quota gate.                                 *)
(***************************************************************************)

\* the test-mode switch with the gate run even in test mode
GateEnter_alwaysGated(p) ==
    /\ pc[p] = "start"
    /\ pc' = [pc EXCEPT ![p] = "checkConnection"]
    /\ UNCHANGED <<conv, callerContext, roundSteps, fetchLog, readLog, headerLog, testMode, faultBudget, redisClient, usageCount, usageTtl, newCount, gateLog, result>>
    /\ UNCHANGED loopVars

\* lines 100-104, 141-143: if (!TESTING) { ... } else { skip }
GateEnter(p) ==
    /\ pc[p] = "start"
    /\ pc' = [pc EXCEPT ![p] = IF ~testMode THEN "checkConnection" ELSE "freshContext"]
    /\ UNCHANGED <<conv, callerContext, roundSteps, fetchLog, readLog, headerLog, testMode, faultBudget, redisClient, usageCount, usageTtl, newCount, gateLog, result>>
    /\ UNCHANGED loopVars

\* lines 106-118
CheckConnection(p) ==
    /\ pc[p] = "checkConnection"
    /\ \E pingOk \in BOOLEAN :
         LET redisStatus == checkRedisConnection(redisClient, pingOk) IN
         /\ gateLog' = [gateLog EXCEPT ![p] = Append(@, Op("ping", redisStatus.connected))]
         /\ IF ~redisStatus.connected
            THEN /\ result' = [result EXCEPT ![p] = RedisErrorResult(agentContext)]
                 /\ pc' = [pc EXCEPT ![p] = "returned"]
            ELSE /\ pc' = [pc EXCEPT ![p] = "checkLimit"]
                 /\ UNCHANGED result
    /\ UNCHANGED <<conv, callerContext, roundSteps, fetchLog, readLog, headerLog, testMode, faultBudget, redisClient, usageCount, usageTtl, newCount>>
    /\ UNCHANGED loopVars

\* lines 122-136
CheckLimit(p) ==
    /\ pc[p] = "checkLimit"
    /\ \E getOk \in BOOLEAN :
         LET limitResult == checkDailyRunLimit(redisClient, getOk, usageCount, DailyCap) IN
         /\ gateLog' = [gateLog EXCEPT ![p] = Append(@, Op("get", ~limitResult.error))]
         /\ IF limitResult.limitExceeded
            THEN /\ result' = [result EXCEPT ![p] =
                                  QuotaResult(DailyCap, limitResult.currentUsage, agentContext)]
                 /\ pc' = [pc EXCEPT ![p] = "returned"]
            ELSE /\ pc' = [pc EXCEPT ![p] = "increment"]
                 /\ UNCHANGED result
    /\ UNCHANGED <<conv, callerContext, roundSteps, fetchLog, readLog, headerLog, testMode, faultBudget, redisClient, usageCount, usageTtl, newCount>>
    /\ UNCHANGED loopVars

\* line 140: await incrementDailyRunCounter(); the returned count is dropped
Increment(p) ==
    /\ pc[p] = "increment"
    /\ \E incrOk \in BOOLEAN :
         \E expireOk \in (IF redisClient /\ incrOk /\ usageCount = 0 THEN BOOLEAN ELSE {TRUE}) :
           LET r == incrementDailyRunCounter(redisClient, incrOk, expireOk, usageCount, usageTtl)
           IN  /\ usageCount' = r.stored
               /\ usageTtl' = r.ttl
               /\ newCount' = [newCount EXCEPT ![p] = <<r.newCount>>]
               /\ gateLog' = [gateLog EXCEPT ![p] = @ \o r.ops]
    /\ pc' = [pc EXCEPT ![p] = "freshContext"]
    /\ UNCHANGED <<conv, callerContext, roundSteps, fetchLog, readLog, headerLog, testMode, faultBudget, redisClient, result>>
    /\ UNCHANGED loopVars

Gate(p) ==
    \/ GateEnter(p)
    \/ CheckConnection(p)
    \/ CheckLimit(p)
    \/ Increment(p)

(***************************************************************************)
(* URLs.  A URL string is written as the sequence of its pieces, so that   *)
(* String.endsWith and String.includes are computed on it: "" is <<>>.     *)
(***************************************************************************)
endsWith(url, suffix) == Len(url) > 0 /\ url[Len(url)] = suffix

includes(url, piece) == \E k \in 1..Len(url) : url[k] = piece

\* new URL(url) does not throw: the string is an absolute URL
Origins == {"https://mcp.skyfire.xyz", "https://seller.example", "https://api.example"}

validURL(url) == Len(url) > 0 /\ url[1] \in Origins

\* process.env.SKYFIRE_MCP_URL || ""
SkyfireMcpUrls == { <<"https://mcp.skyfire.xyz", "/mcp">>, <<>> }

\* the values the model may give as mcpServerUrl
MountUrls ==
    { <<"https://seller.example", "/mcp">>,
      <<"https://seller.example", "/openapi", ".json">>,
      <<"https://seller.example", ".json", "/v1">>,
      <<"https://seller.example", ".json", "/sse">>,
      <<"seller.example">> }

\* the values the model may give as openApiSpecUrl
SpecUrls ==
    { <<"https://api.example", "/openapi", ".json">>,
      <<"https://api.example", "/v2", ".json">> }

NoUrl == <<"undefined">>

(***************************************************************************)
(* Tools.  A tool set is a function from tool names to where the tool comes *)
(* from; {...a, ...b} is b @@ a.                                           *)
(***************************************************************************)
MaxToolNameLength == 64

LongToolName == "seller_tool_whose_name_is_sixty_five_characters_long_for_the_test"

toolNameLength(name) ==
    CASE name = "connect-mcp-server-tool" -> 23
      [] name = "convert-openapi-spec-to-agent-tool" -> 34
      [] name = "create-kya-pay-token" -> 20
      [] name = "execute_companyresearcher_tool" -> 30
      [] name = "get_widget" -> 10
      [] name = LongToolName -> 65

\* the mount tool left out of the built-in tools
connectMcpServerTool_missing == <<>>

\* skyfireTools.ts: the two bootstrap tools
connectMcpServerTool == [n \in {"connect-mcp-server-tool"} |-> "builtin"]

convertOpenApiSpecToAgentTool == [n \in {"convert-openapi-spec-to-agent-tool"} |-> "builtin"]

BootstrapTools == {"connect-mcp-server-tool", "convert-openapi-spec-to-agent-tool"}

\* the tool set a connected protocol server lists (client.tools())
ServerTools(url) ==
    IF url[1] = "https://mcp.skyfire.xyz"
    THEN [n \in {"create-kya-pay-token"} |-> url]
    ELSE [n \in {"execute_companyresearcher_tool", "get_widget", LongToolName} |-> url]

\* the resources of a server read in the first round only
ServerResources_firstRoundOnly(url) ==
    IF rounds > 1 THEN 0 ELSE IF url[1] = "https://mcp.skyfire.xyz" THEN 1 ELSE 2

\* the resources a connected protocol server lists (listResources())
ServerResources(url) == IF url[1] = "https://mcp.skyfire.xyz" THEN 1 ELSE 2

MaxReadFailures == 1   \* failed resource enumerations of one invocation

\* lines 385-417: the outcomes of the try block over a server with n
\* resources: connect, listResources or the read of resource k + 1 rejects
\* after k messages were pushed, or all n are read
ReadOutcomes(n) ==
    {[read |-> k, failed |-> TRUE] : k \in 0..(n - 1)} \cup {[read |-> n, failed |-> FALSE]}

FailedReads(log) == Len(SelectSeq(log, LAMBDA e : e.failed))

\* the tools compiled from the description fetched at url (generateTools())
SpecTools(url) == [n \in {"get_widget"} |-> url]

\* the tool names formatOutput decodes a token for, lines 475-478
TokenTools == {"create-payment-token", "create-kya-token", "create-kya-pay-token",
               "create-account"}

\* the keys of textConfig, lines 72-89
TextConfigKeys ==
    {"find-seller", "create-kya-token", "create-payment-token", "create-kya-pay-token",
     "execute_companyresearcher_tool", "execute_researchcompetitors_tool",
     "export-text-to-pdf", "connect-mcp-server-tool", "convert-openapi-spec-to-agent-tool"}

(***************************************************************************)
(* The model's steps.  A tool result is "jwt" (its text ends in a          *)
(* well-formed signed token), "text" (it does not) or "undefined" (the     *)
(* step carries no result for the call).                                   *)
(***************************************************************************)
MaxModelSteps == 3     \* steps of the model in one invocation, all rounds together
MaxCallsPerStep == 2   \* tool calls of one step
MaxToolCalls == 2      \* tool calls of one invocation, all rounds together

Call(name, mcpServerUrl, openApiSpecUrl) ==
    [toolName |-> name,
     args |-> [mcpServerUrl |-> mcpServerUrl, openApiSpecUrl |-> openApiSpecUrl]]

\* a tool call the model may make with the tools it was given, and its result
CallsWith(tools) ==
    {[call |-> Call("connect-mcp-server-tool", u, NoUrl), result |-> "text"] :
        u \in MountUrls}
    \cup {[call |-> Call("convert-openapi-spec-to-agent-tool", NoUrl, u), result |-> "text"] :
        u \in SpecUrls}
    \cup {[call |-> Call(n, NoUrl, NoUrl), result |-> r] :
        n \in (DOMAIN tools) \cap TokenTools, r \in {"jwt", "text", "undefined"}}
    \cup {[call |-> Call(n, NoUrl, NoUrl), result |-> "text"] :
        n \in (DOMAIN tools) \ (TokenTools \cup BootstrapTools)}

ModelText(round, idx) == [src |-> "model", key |-> "", round |-> round, idx |-> idx]

Msg(role, content) == [role |-> role, content |-> content]

(***************************************************************************)
(* formatOutput, lines 442-509, and its helpers.                           *)
(***************************************************************************)

\* isJWT of lib/utils: the token is a well-formed signed token
isJWT(token) == token = "jwt"

\* getDecodedJWT taking every token it can read for a well-formed one
getDecodedJWT_alwaysValid(toolResult) ==
    IF toolResult = "undefined" THEN [threw |-> TRUE, isValidJWT |-> FALSE]
    ELSE [threw |-> FALSE, isValidJWT |-> TRUE]

\* getDecodedJWT, lines 249-261: reading .result of an undefined toolResult throws
getDecodedJWT(toolResult) ==
    IF toolResult = "undefined" THEN [threw |-> TRUE, isValidJWT |-> FALSE]
    ELSE IF isJWT(toolResult) THEN [threw |-> FALSE, isValidJWT |-> TRUE]
    ELSE [threw |-> FALSE, isValidJWT |-> FALSE]

\* getStepDescription, lines 276-285; toolCall is <<>> for null
getStepDescription(step, toolCall) ==
    IF toolCall # <<>> /\ toolCall[1].toolName \in TextConfigKeys
    THEN [src |-> "textConfig", key |-> toolCall[1].toolName, round |-> 0, idx |-> 0]
    ELSE step.text

\* the entry pushFormattedSteps pushes, lines 263-274
DecodedStep ==
    [step |-> 1, text |-> [src |-> "decoding", key |-> "", round |-> 0, idx |-> 0],
     tool |-> "thinking", input |-> Call("", NoUrl, NoUrl).args, result |-> "decoded"]

\* lines 464-489 with the decoded entry pushed whether or not the token is valid
FormatCall_decodeAlways(step, k) ==
    LET toolCall == step.toolCalls[k]
        toolResult == step.toolResults[k]
    IN  <<[step |-> 1, text |-> getStepDescription(step, <<toolCall>>),
           tool |-> toolCall.toolName, input |-> toolCall.args, result |-> toolResult]>>
        \o (IF toolCall.toolName \in TokenTools THEN <<DecodedStep>> ELSE <<>>)

\* lines 464-489: the entries pushed for tool call k of a step
FormatCall(step, k) ==
    LET toolCall == step.toolCalls[k]
        toolResult == step.toolResults[k]
        decoded == getDecodedJWT(toolResult)
    IN  <<[step |-> 1, text |-> getStepDescription(step, <<toolCall>>),
           tool |-> toolCall.toolName, input |-> toolCall.args, result |-> toolResult]>>
        \o (IF toolCall.toolName \in TokenTools /\ ~decoded.threw /\ decoded.isValidJWT
            THEN <<DecodedStep>> ELSE <<>>)

RECURSIVE FormatCalls(_, _)
FormatCalls(step, k) ==
    IF k > Len(step.toolCalls) THEN <<>>
    ELSE FormatCall(step, k) \o FormatCalls(step, k + 1)

\* a "thinking" entry pushed for every step, before the entries of its calls
FormatStep_thinkingToo(step) ==
    <<[step |-> 1, text |-> getStepDescription(step, <<>>), tool |-> "thinking",
       input |-> Call("", NoUrl, NoUrl).args, result |-> "null"]>>
    \o FormatCalls(step, 1)

\* lines 444-507: the entries pushed for one step
FormatStep(step) ==
    IF Len(step.toolCalls) > 0 THEN FormatCalls(step, 1)
    ELSE <<[step |-> 1, text |-> getStepDescription(step, <<>>), tool |-> "thinking",
            input |-> Call("", NoUrl, NoUrl).args, result |-> "null"]>>

RECURSIVE formatOutput(_, _)
formatOutput(steps, formattedSteps) ==
    IF steps = <<>> THEN formattedSteps
    ELSE formatOutput(Tail(steps), formattedSteps \o FormatStep(Head(steps)))

\* JSON.parse(JSON.stringify(steps)): a key whose value is undefined is dropped
jsonRoundTrip(formattedSteps) ==
    [k \in 1..Len(formattedSteps) |->
        IF formattedSteps[k].result = "undefined"
        THEN [formattedSteps[k] EXCEPT !.result = "absent"]
        ELSE formattedSteps[k]]

(***************************************************************************)
(* checkAndUpdateAgentContextIfConnectionIsInitiated, lines 511-572.       *)
(***************************************************************************)
RECURSIVE AllToolCalls(_)
AllToolCalls(steps) ==
    IF steps = <<>> THEN <<>> ELSE Head(steps).toolCalls \o AllToolCalls(Tail(steps))

\* the mount giving the mounted entry the caller's credential
MountServer_withKey(ctx, url) ==
    [ctx EXCEPT !.dynamically_mounted_server =
        <<[url |-> url, headers |-> {"skyfire-api-key"}]>>]

\* line 528: agentContext.dynamically_mounted_server = [{ url: url, headers: {} }]
MountServer(ctx, url) ==
    [ctx EXCEPT !.dynamically_mounted_server = <<[url |-> url, headers |-> {}]>>]

\* the description list replaced, as the mounted list is
AddSpec_replaces(ctx, url) ==
    [ctx EXCEPT !.openApiSpecs = <<[url |-> url, authHeader |-> <<>>]>>]

\* the detection storing a credential with the description's URL
AddSpec_withCredential(ctx, url) ==
    [ctx EXCEPT !.openApiSpecs = Append(@, [url |-> url, authHeader |-> <<"secret">>])]

\* lines 542-544: agentContext.openApiSpecs.push({ url })
AddSpec(ctx, url) ==
    [ctx EXCEPT !.openApiSpecs = Append(@, [url |-> url, authHeader |-> <<>>])]

\* lines 519-551: every tool call of every step, in order
RECURSIVE ScanCalls(_, _)
ScanCalls(calls, acc) ==
    IF calls = <<>> THEN acc
    ELSE LET c == Head(calls)
             a1 == IF c.toolName = "connect-mcp-server-tool"
                   THEN [acc EXCEPT !.ctx = MountServer(@, c.args.mcpServerUrl),
                                    !.mcpServerConnected = TRUE,
                                    !.newToolsFound = TRUE]
                   ELSE acc
             a2 == IF c.toolName = "convert-openapi-spec-to-agent-tool"
                   THEN [a1 EXCEPT !.ctx = AddSpec(@, c.args.openApiSpecUrl),
                                   !.openApiSpecsAdded = TRUE,
                                   !.newToolsFound = TRUE]
                   ELSE a1
         IN  ScanCalls(Tail(calls), a2)

\* the function appending its system message once for every bootstrap call
checkAndUpdateAgentContext_messagePerCall(steps, ctx) ==
    LET scanned == ScanCalls(AllToolCalls(steps),
                             [ctx |-> ctx, mcpServerConnected |-> FALSE,
                              openApiSpecsAdded |-> FALSE, newToolsFound |-> FALSE])
        calls == SelectSeq(AllToolCalls(steps), LAMBDA c : c.toolName \in BootstrapTools)
    IN  [ctx |-> [scanned.ctx EXCEPT !.conversation_history =
                     @ \o [k \in 1..Len(calls) |->
                              Msg("system", IF calls[k].toolName = "connect-mcp-server-tool"
                                            THEN "connectedMcp" ELSE "connectedOpenApi")]],
         newToolsFound |-> scanned.newToolsFound]

\* the whole function: the context it leaves and the flag it returns
checkAndUpdateAgentContext(steps, ctx) ==
    LET scanned == ScanCalls(AllToolCalls(steps),
                             [ctx |-> ctx, mcpServerConnected |-> FALSE,
                              openApiSpecsAdded |-> FALSE, newToolsFound |-> FALSE])
        systemMessage ==
            IF scanned.mcpServerConnected /\ scanned.openApiSpecsAdded THEN "connectedBoth"
            ELSE IF scanned.mcpServerConnected THEN "connectedMcp"
            ELSE "connectedOpenApi"
    IN  [ctx |-> IF scanned.mcpServerConnected \/ scanned.openApiSpecsAdded
                 THEN [scanned.ctx EXCEPT !.conversation_history =
                                              Append(@, Msg("system", systemMessage))]
                 ELSE scanned.ctx,
         newToolsFound |-> scanned.newToolsFound]

\* some tool call of some step names a bootstrap tool
HasBootstrapCall(steps) ==
    \E s \in 1..Len(steps) : \E k \in 1..Len(steps[s].toolCalls) :
        steps[s].toolCalls[k].toolName \in BootstrapTools

(***************************************************************************)
(* prepareAllTools, lines 287-440.                                         *)
(***************************************************************************)

\* lines 346-360: the filter with the .json test left out
isMcpServer_noJsonTest(server) ==
    TRUE

\* lines 346-360: the filter asking for a transport suffix
isMcpServer_suffixOnly(server) ==
    endsWith(server.url, "/mcp") \/ endsWith(server.url, "/sse")

\* lines 346-360: the filter callback of allServers.filter
isMcpServer(server) ==
    LET url == server.url
        isJsonSpec == endsWith(url, ".json")
        mcp == endsWith(url, "/mcp") \/ endsWith(url, "/sse")
                  \/ (~isJsonSpec /\ ~includes(url, ".json"))
    IN  IF isJsonSpec THEN FALSE ELSE mcp

\* the name-length filter letting every tool through
validTools_noFilter(allTools) == allTools

\* lines 422-431: the tools whose name has at most 64 characters
validTools(allTools) ==
    [n \in {m \in DOMAIN allTools : toolNameLength(m) <= MaxToolNameLength} |-> allTools[n]]

\* no call of the description compiler is followed
NoConv == [call |-> "none", input |-> <<>>, output |-> <<>>]

NoBuild == [allServers |-> <<>>, allTools |-> <<>>, j |-> 0, mcpServers |-> <<>>, i |-> 0]

(***************************************************************************)
(* The invocation followed by Spec.                                        *)
(***************************************************************************)
Main == 1

Top == frames[Len(frames)]

Frame(initialFormattedSteps) ==
    [answer |-> <<>>, usage |-> <<>>, steps |-> <<>>,
     initialFormattedSteps |-> initialFormattedSteps,
     formattedSteps |-> <<>>, newToolsFound |-> FALSE]

SetTop(f) == [frames EXCEPT ![Len(frames)] = f]

\* an exception nobody catches: every runAgent call is left and the promise
\* getAgent returned rejects
Throw ==
    /\ pc' = [pc EXCEPT ![Main] = "threw"]
    /\ result' = [result EXCEPT ![Main] = [NoResult EXCEPT !.kind = "threw"]]
    /\ frames' = <<>>
    /\ build' = NoBuild
    /\ gen' = <<>>

\* getAgent keeping the servers mounted in the context the caller passed
FreshContext_keepsMounted ==
    /\ pc[Main] = "freshContext"
    /\ \E url \in SkyfireMcpUrls :
         agentContext' =
            [available_mcp_servers |-> <<[url |-> url, headers |-> {"skyfire-api-key"}]>>,
             dynamically_mounted_server |-> agentContext.dynamically_mounted_server,
             openApiSpecs |-> <<>>,
             conversation_history |-> <<Msg("system", "systemPrompt")>>]
    /\ frames' = <<Frame(<<>>)>>
    /\ rounds' = 1
    /\ pc' = [pc EXCEPT ![Main] = "prepareAllTools"]
    /\ UNCHANGED <<conv, callerContext, roundSteps, fetchLog, readLog, headerLog, testMode, faultBudget, redisClient, usageCount, usageTtl, newCount,
                   gateLog, result>>
    /\ UNCHANGED <<build, registry, gen, returned, connectLog, callsMade, stepsMade, bootstrapRounds>>

\* getAgent, lines 145-168: the fresh context, then runAgent(apiKey, prompt, ctx)
FreshContext ==
    /\ pc[Main] = "freshContext"
    /\ \E url \in SkyfireMcpUrls :
         agentContext' =
            [available_mcp_servers |-> <<[url |-> url, headers |-> {"skyfire-api-key"}]>>,
             dynamically_mounted_server |-> <<>>,
             openApiSpecs |-> <<>>,
             conversation_history |-> <<Msg("system", "systemPrompt")>>]
    /\ frames' = <<Frame(<<>>)>>
    /\ rounds' = 1
    /\ pc' = [pc EXCEPT ![Main] = "prepareAllTools"]
    /\ UNCHANGED <<conv, callerContext, roundSteps, fetchLog, readLog, headerLog, testMode, faultBudget, redisClient, usageCount, usageTtl, newCount, gateLog, result>>
    /\ UNCHANGED <<build, registry, gen, returned, connectLog, callsMade, stepsMade, bootstrapRounds>>

\* lines 288-300
BuildStart ==
    /\ pc[Main] = "prepareAllTools"
    /\ build' = [allServers |-> agentContext.available_mcp_servers
                                  \o agentContext.dynamically_mounted_server,
                 allTools |-> convertOpenApiSpecToAgentTool @@ connectMcpServerTool,
                 j |-> 1, mcpServers |-> <<>>, i |-> 1]
    /\ pc' = [pc EXCEPT ![Main] = "openApiSpecs"]
    /\ UNCHANGED <<conv, callerContext, roundSteps, fetchLog, readLog, headerLog, testMode, faultBudget, redisClient, usageCount, usageTtl, newCount, gateLog, result>>
    /\ UNCHANGED <<agentContext, frames, registry, gen, returned, connectLog, callsMade, stepsMade,
                   rounds, bootstrapRounds>>

\* lines 303-343, one iteration: fetch, parse and compile description j; a failed
\* fetch or an unparsable body throws
FetchSpec ==
    /\ pc[Main] = "openApiSpecs"
    /\ build.j <= Len(agentContext.openApiSpecs)
    /\ \E fetched \in BOOLEAN :
         IF fetched
         THEN /\ build' = [build EXCEPT
                             !.allTools = SpecTools(agentContext.openApiSpecs[build.j].url) @@ @,
                             !.j = @ + 1]
              /\ UNCHANGED <<pc, result, frames, gen>>
         ELSE Throw
    /\ fetchLog' = Append(fetchLog, <<rounds, agentContext.openApiSpecs[build.j].url>>)
    /\ UNCHANGED <<conv, callerContext, roundSteps, readLog, headerLog, testMode, faultBudget, redisClient, usageCount, usageTtl, newCount, gateLog>>
    /\ UNCHANGED <<agentContext, registry, returned, connectLog, callsMade, stepsMade, rounds, bootstrapRounds>>

\* lines 346-365
FilterServers ==
    /\ pc[Main] = "openApiSpecs"
    /\ build.j > Len(agentContext.openApiSpecs)
    /\ build' = [build EXCEPT !.mcpServers = SelectSeq(build.allServers, isMcpServer)]
    /\ pc' = [pc EXCEPT ![Main] = "mcpServers"]
    /\ UNCHANGED <<conv, callerContext, roundSteps, fetchLog, readLog, headerLog, testMode, faultBudget, redisClient, usageCount, usageTtl, newCount, gateLog, result>>
    /\ UNCHANGED <<agentContext, frames, registry, gen, returned, connectLog, callsMade, stepsMade,
                   rounds, bootstrapRounds>>

\* the server loop keeping the definition a name already has
ConnectServer_keepsEarlier ==
    /\ pc[Main] = "mcpServers"
    /\ build.i <= Len(build.mcpServers)
    /\ LET server == build.mcpServers[build.i] IN
       IF ~validURL(server.url)
       THEN Throw /\ UNCHANGED <<agentContext, connectLog, readLog, headerLog>>
       ELSE /\ connectLog' = Append(connectLog, <<rounds, server.url>>)
            /\ headerLog' = Append(headerLog, server.headers)
            /\ \E reachable \in BOOLEAN :
                 IF ~reachable
                 THEN Throw /\ UNCHANGED <<agentContext, readLog>>
                 ELSE \E outcome \in ReadOutcomes(ServerResources(server.url)) :
                      /\ FailedReads(readLog) + (IF outcome.failed THEN 1 ELSE 0)
                            <= faultBudget
                      /\ build' = [build EXCEPT
                                     !.allTools = @ @@ ServerTools(server.url),
                                     !.i = @ + 1]
                      /\ agentContext' =
                            [agentContext EXCEPT !.conversation_history =
                                @ \o [k \in 1..outcome.read |->
                                         Msg("system", "resource")]]
                      /\ readLog' = Append(readLog,
                            [round |-> rounds, url |-> server.url,
                             read |-> outcome.read, failed |-> outcome.failed])
                      /\ UNCHANGED <<pc, result, frames, gen>>
    /\ UNCHANGED <<conv, callerContext, roundSteps, fetchLog, testMode, faultBudget, redisClient, usageCount, usageTtl, newCount, gateLog>>
    /\ UNCHANGED <<registry, returned, callsMade, stepsMade, rounds, bootstrapRounds>>

\* lines 367-418, one iteration: new URL, the transport and client.tools() of
\* server i (each may throw), then its resources (failures swallowed)
ConnectServer ==
    /\ pc[Main] = "mcpServers"
    /\ build.i <= Len(build.mcpServers)
    /\ LET server == build.mcpServers[build.i] IN
       IF ~validURL(server.url)
       THEN Throw /\ UNCHANGED <<agentContext, connectLog, readLog, headerLog>>
       ELSE /\ connectLog' = Append(connectLog, <<rounds, server.url>>)
            /\ headerLog' = Append(headerLog, server.headers)
            /\ \E reachable \in BOOLEAN :
                 IF ~reachable
                 THEN Throw /\ UNCHANGED <<agentContext, readLog>>
                 ELSE \E outcome \in ReadOutcomes(ServerResources(server.url)) :
                      /\ FailedReads(readLog) + (IF outcome.failed THEN 1 ELSE 0)
                            <= faultBudget
                      /\ build' = [build EXCEPT
                                     !.allTools = ServerTools(server.url) @@ @,
                                     !.i = @ + 1]
                      /\ agentContext' =
                            [agentContext EXCEPT !.conversation_history =
                                @ \o [k \in 1..outcome.read |->
                                         Msg("system", "resource")]]
                      /\ readLog' = Append(readLog,
                            [round |-> rounds, url |-> server.url,
                             read |-> outcome.read, failed |-> outcome.failed])
                      /\ UNCHANGED <<pc, result, frames, gen>>
    /\ UNCHANGED <<conv, callerContext, roundSteps, fetchLog, testMode, faultBudget, redisClient, usageCount, usageTtl, newCount, gateLog>>
    /\ UNCHANGED <<registry, returned, callsMade, stepsMade, rounds, bootstrapRounds>>

\* lines 420-439: the name-length filter; prepareAllTools returns
FinishBuild ==
    /\ pc[Main] = "mcpServers"
    /\ build.i > Len(build.mcpServers)
    /\ registry' = validTools(build.allTools)
    /\ build' = NoBuild
    /\ pc' = [pc EXCEPT ![Main] = "invokeModel"]
    /\ UNCHANGED <<conv, callerContext, roundSteps, fetchLog, readLog, headerLog, testMode, faultBudget, redisClient, usageCount, usageTtl, newCount, gateLog, result>>
    /\ UNCHANGED <<agentContext, frames, gen, returned, connectLog, callsMade, stepsMade, rounds, bootstrapRounds>>

(***************************************************************************)
(* runAgent, lines 171-247.                                                *)
(***************************************************************************)

\* runAgent starting the history over with the user message
InvokeModel_restartsHistory ==
    /\ pc[Main] = "invokeModel"
    /\ agentContext' = [agentContext EXCEPT !.conversation_history = <<Msg("user", "input")>>]
    /\ gen' = <<>>
    /\ pc' = [pc EXCEPT ![Main] = "generateText"]
    /\ UNCHANGED <<conv, callerContext, roundSteps, fetchLog, readLog, headerLog, testMode, faultBudget, redisClient, usageCount, usageTtl, newCount,
                   gateLog, result>>
    /\ UNCHANGED <<frames, build, registry, returned, connectLog, callsMade, stepsMade, rounds,
                   bootstrapRounds>>

\* lines 187-205: the user message, then generateText is called
InvokeModel ==
    /\ pc[Main] = "invokeModel"
    /\ agentContext' = [agentContext EXCEPT !.conversation_history =
                           Append(@, Msg("user", "input"))]
    /\ gen' = <<>>
    /\ pc' = [pc EXCEPT ![Main] = "generateText"]
    /\ UNCHANGED <<conv, callerContext, roundSteps, fetchLog, readLog, headerLog, testMode, faultBudget, redisClient, usageCount, usageTtl, newCount, gateLog, result>>
    /\ UNCHANGED <<frames, build, registry, returned, connectLog, callsMade, stepsMade, rounds, bootstrapRounds>>

\* execute of the mount tool performing the mount itself
execute_mounts(toolCall, ctx) ==
    IF toolCall.toolName = "connect-mcp-server-tool"
    THEN MountServer(ctx, toolCall.args.mcpServerUrl)
    ELSE ctx

\* skyfireTools.ts, lines 21-30 and 52-60: execute of a bootstrap tool takes no
\* argument and only returns its acknowledgement; the context is as it was
execute(toolCall, ctx) == ctx

\* the context after the tool calls of a step were executed in order
RECURSIVE ExecuteAll(_, _)
ExecuteAll(calls, ctx) ==
    IF calls = <<>> THEN ctx
    ELSE ExecuteAll(Tail(calls),
                    IF Head(calls).toolName \in BootstrapTools
                    THEN execute(Head(calls), ctx) ELSE ctx)

\* inside generateText: the model produces one more step, whose tool calls are
\* executed; executing a bootstrap tool only returns its acknowledgement
ModelStep ==
    /\ pc[Main] = "generateText"
    /\ stepsMade < MaxModelSteps
    /\ \E n \in 0..MaxCallsPerStep :
         /\ callsMade + n <= MaxToolCalls
         /\ \E cs \in [1..n -> CallsWith(registry)] :
              /\ gen' = Append(gen,
                           [text |-> ModelText(rounds, Len(gen) + 1),
                            toolCalls |-> [k \in 1..n |-> cs[k].call],
                            toolResults |-> [k \in 1..n |-> cs[k].result]])
              /\ agentContext' = ExecuteAll([k \in 1..n |-> cs[k].call], agentContext)
              /\ callsMade' = callsMade + n
              /\ stepsMade' = stepsMade + 1
    /\ UNCHANGED <<pc, conv, callerContext, roundSteps, fetchLog, readLog, headerLog, testMode, faultBudget, redisClient, usageCount, usageTtl, newCount, gateLog, result>>
    /\ UNCHANGED <<frames, build, registry, returned, connectLog, rounds, bootstrapRounds>>

\* lines 194-213: generateText returns text, usage, steps and response.messages
\* (one assistant message for each step, one tool message for its results)
RECURSIVE ResponseMessages(_)
ResponseMessages(steps) ==
    IF steps = <<>> THEN <<>>
    ELSE <<Msg("assistant", "step")>>
         \o (IF Len(Head(steps).toolCalls) > 0 THEN <<Msg("tool", "results")>> ELSE <<>>)
         \o ResponseMessages(Tail(steps))

ModelReturn ==
    /\ pc[Main] = "generateText"
    /\ frames' = SetTop([Top EXCEPT !.answer = <<rounds>>, !.usage = <<rounds>>,
                                    !.steps = gen])
    /\ agentContext' = [agentContext EXCEPT !.conversation_history =
                           @ \o ResponseMessages(gen)]
    /\ roundSteps' = Append(roundSteps, gen)
    /\ gen' = <<>>
    /\ pc' = [pc EXCEPT ![Main] = "formatOutput"]
    /\ UNCHANGED <<conv, callerContext, fetchLog, readLog, headerLog, testMode, faultBudget, redisClient, usageCount, usageTtl, newCount, gateLog, result>>
    /\ UNCHANGED <<build, registry, returned, connectLog, callsMade, stepsMade, rounds, bootstrapRounds>>

\* generateText rejects: runAgent has no handler
ModelFails ==
    /\ pc[Main] = "generateText"
    /\ Throw
    /\ UNCHANGED <<conv, callerContext, roundSteps, fetchLog, readLog, headerLog, testMode, faultBudget, redisClient, usageCount, usageTtl, newCount, gateLog>>
    /\ UNCHANGED <<agentContext, registry, returned, connectLog, callsMade, stepsMade, rounds, bootstrapRounds>>

\* lines 216-220
FormatSteps ==
    /\ pc[Main] = "formatOutput"
    /\ frames' = SetTop([Top EXCEPT !.formattedSteps =
                            formatOutput(Top.steps, Top.initialFormattedSteps)])
    /\ pc' = [pc EXCEPT ![Main] = "detect"]
    /\ UNCHANGED <<conv, callerContext, roundSteps, fetchLog, readLog, headerLog, testMode, faultBudget, redisClient, usageCount, usageTtl, newCount, gateLog, result>>
    /\ UNCHANGED <<agentContext, build, registry, gen, returned, connectLog, callsMade, stepsMade,
                   rounds, bootstrapRounds>>

\* lines 223-226
DetectBootstrap ==
    /\ pc[Main] = "detect"
    /\ LET r == checkAndUpdateAgentContext(Top.steps, agentContext) IN
         /\ agentContext' = r.ctx
         /\ frames' = SetTop([Top EXCEPT !.newToolsFound = r.newToolsFound])
    /\ bootstrapRounds' = bootstrapRounds + (IF HasBootstrapCall(Top.steps) THEN 1 ELSE 0)
    /\ pc' = [pc EXCEPT ![Main] = "decide"]
    /\ UNCHANGED <<conv, callerContext, roundSteps, fetchLog, readLog, headerLog, testMode, faultBudget, redisClient, usageCount, usageTtl, newCount, gateLog, result>>
    /\ UNCHANGED <<build, registry, gen, returned, connectLog, callsMade, stepsMade, rounds>>

\* the test of line 229 taken whatever the flag
shouldRerun_always(newToolsFound) == TRUE

\* the test of line 229 with a budget of two rounds
shouldRerun_budget(newToolsFound) == newToolsFound /\ rounds < 2

\* line 229: if (newToolsFound)
shouldRerun(newToolsFound) == newToolsFound

\* the recursive call made without the trace accumulated so far
Recurse_dropsTrace ==
    /\ pc[Main] = "decide"
    /\ shouldRerun(Top.newToolsFound)
    /\ frames' = Append(frames, Frame(<<>>))
    /\ rounds' = rounds + 1
    /\ pc' = [pc EXCEPT ![Main] = "prepareAllTools"]
    /\ UNCHANGED <<conv, callerContext, roundSteps, fetchLog, readLog, headerLog, testMode, faultBudget, redisClient, usageCount, usageTtl,
                   newCount, gateLog, result>>
    /\ UNCHANGED <<agentContext, build, registry, gen, returned, connectLog, callsMade, stepsMade,
                   bootstrapRounds>>

\* the recursive call made through the increment of the gate
Recurse_incrementsAgain ==
    /\ pc[Main] = "decide"
    /\ shouldRerun(Top.newToolsFound)
    /\ frames' = Append(frames, Frame(Top.formattedSteps))
    /\ rounds' = rounds + 1
    /\ pc' = [pc EXCEPT ![Main] = IF testMode THEN "prepareAllTools" ELSE "increment"]
    /\ UNCHANGED <<conv, callerContext, roundSteps, fetchLog, readLog, headerLog, testMode, faultBudget, redisClient, usageCount, usageTtl, newCount, gateLog, result>>
    /\ UNCHANGED <<agentContext, build, registry, gen, returned, connectLog, callsMade, stepsMade,
                   bootstrapRounds>>

\* lines 229-232: the recursive call runAgent(apiKey, input, ctx, formattedSteps)
Recurse ==
    /\ pc[Main] = "decide"
    /\ shouldRerun(Top.newToolsFound)
    /\ frames' = Append(frames, Frame(Top.formattedSteps))
    /\ rounds' = rounds + 1
    /\ pc' = [pc EXCEPT ![Main] = "prepareAllTools"]
    /\ UNCHANGED <<conv, callerContext, roundSteps, fetchLog, readLog, headerLog, testMode, faultBudget, redisClient, usageCount, usageTtl, newCount, gateLog, result>>
    /\ UNCHANGED <<agentContext, build, registry, gen, returned, connectLog, callsMade, stepsMade,
                   bootstrapRounds>>

\* the returned document taking the answer of the recursive call
ReturnDoc_innerAnswer(frame, ctx, inner) ==
    [answer |-> IF inner = <<>> THEN frame.answer ELSE inner[1].answer,
     steps |-> frame.formattedSteps, usage |-> frame.usage, agentContext |-> ctx]

\* lines 237-246: { answer, steps: formattedSteps, usage, agentContext } of the
\* returning call; inner is what its own recursive call returned, if it made one
ReturnDoc(frame, ctx, inner) ==
    [answer |-> frame.answer, steps |-> frame.formattedSteps, usage |-> frame.usage,
     agentContext |-> ctx]

OkResult(doc) ==
    [kind |-> "ok", error |-> FALSE, redisError |-> FALSE, dailyCap |-> <<>>,
     currentUsage |-> <<>>, steps |-> doc.steps, usage |-> doc.usage,
     answer |-> doc.answer, agentContext |-> <<doc.agentContext>>]

\* lines 237-247, and lines 230-233 in the caller: the innermost call returns
\* its document; a calling runAgent parses it, takes its steps and is then at
\* its own return
Return ==
    /\ \/ pc[Main] = "decide" /\ ~shouldRerun(Top.newToolsFound)
       \/ pc[Main] = "resumed"
    /\ LET doc == ReturnDoc(Top, agentContext,
                            IF pc[Main] = "resumed" THEN returned ELSE <<>>) IN
         /\ returned' = <<doc>>
         /\ IF Len(frames) = 1
            THEN /\ result' = [result EXCEPT ![Main] = OkResult(doc)]
                 /\ frames' = <<>>
                 /\ pc' = [pc EXCEPT ![Main] = "returned"]
            ELSE /\ frames' = [SubSeq(frames, 1, Len(frames) - 1) EXCEPT
                                  ![Len(frames) - 1].formattedSteps = jsonRoundTrip(doc.steps)]
                 /\ pc' = [pc EXCEPT ![Main] = "resumed"]
                 /\ UNCHANGED result
    /\ UNCHANGED <<conv, callerContext, roundSteps, fetchLog, readLog, headerLog, testMode, faultBudget, redisClient, usageCount, usageTtl, newCount, gateLog>>
    /\ UNCHANGED <<agentContext, build, registry, gen, connectLog, callsMade, stepsMade, rounds, bootstrapRounds>>

Run ==
    \/ FreshContext
    \/ BuildStart
    \/ FetchSpec
    \/ FilterServers
    \/ ConnectServer
    \/ FinishBuild
    \/ InvokeModel
    \/ ModelStep
    \/ ModelReturn
    \/ ModelFails
    \/ FormatSteps
    \/ DetectBootstrap
    \/ Recurse
    \/ Return

\* the context object the caller passes to getAgent
CallerContexts ==
    { [available_mcp_servers |-> <<>>, dynamically_mounted_server |-> <<>>,
       openApiSpecs |-> <<>>, conversation_history |-> <<>>],
      [available_mcp_servers |-> <<>>,
       dynamically_mounted_server |-> <<[url |-> <<"https://seller.example", "/mcp">>,
                                         headers |-> {}]>>,
       openApiSpecs |-> <<>>,
       conversation_history |-> <<Msg("user", "input")>>] }

InitLoopVars ==
    /\ callerContext \in CallerContexts
    /\ agentContext = callerContext
    /\ frames = <<>>
    /\ build = NoBuild
    /\ registry = <<>>
    /\ gen = <<>>
    /\ returned = <<>>
    /\ connectLog = <<>>
    /\ callsMade = 0
    /\ stepsMade = 0
    /\ rounds = 0
    /\ bootstrapRounds = 0
    /\ roundSteps = <<>>
    /\ fetchLog = <<>>
    /\ readLog = <<>>
    /\ headerLog = <<>>

(***************************************************************************)
(* Spec: one invocation, from the call of getAgent to its return.          *)
(* SpecGate: NumInv concurrent invocations, the quota gate only; one that  *)
(* passes the gate stays at "freshContext", about to run the agent.        *)
(***************************************************************************)
InitGateVars(running) ==
    /\ pc = [p \in Procs |-> IF p \in running THEN "start" ELSE "idle"]
    /\ testMode \in BOOLEAN
    /\ redisClient \in BOOLEAN
    /\ usageCount \in 0..DailyCap
    /\ usageTtl = IF usageCount = 0 THEN <<>> ELSE <<ExpirySeconds>>
    /\ newCount = [p \in Procs |-> <<>>]
    /\ gateLog = [p \in Procs |-> <<>>]
    /\ result = [p \in Procs |-> NoResult]

Init ==
    /\ InitGateVars({Main})
    /\ faultBudget = MaxReadFailures
    /\ InitLoopVars
    /\ conv = NoConv

Next == Gate(Main) \/ Run

Spec == Init /\ [][Next]_vars

InitGate ==
    /\ InitGateVars(Procs)
    /\ faultBudget = 0
    /\ InitLoopVars
    /\ conv = NoConv

NextGate == \E p \in Procs : Gate(p)

\* SpecRun: one invocation in a TEST_MODE deployment without a store (the local
\* setup of the README), which goes straight to the agent run; the caller
\* passes the context of an earlier run, and every resource enumeration of a
\* connected server succeeds (Spec lets MaxReadFailures of them fail)
InitRun ==
    /\ pc = [p \in Procs |-> IF p = Main THEN "start" ELSE "idle"]
    /\ testMode = TRUE
    /\ faultBudget = 0
    /\ redisClient = FALSE
    /\ usageCount = 0
    /\ usageTtl = <<>>
    /\ newCount = [p \in Procs |-> <<>>]
    /\ gateLog = [p \in Procs |-> <<>>]
    /\ result = [p \in Procs |-> NoResult]
    /\ InitLoopVars
    /\ callerContext.conversation_history # <<>>
    /\ conv = NoConv

NextRun == GateEnter(Main) \/ Run

SpecRun == InitRun /\ [][NextRun]_vars

SpecGate == InitGate /\ [][NextGate]_vars

(***************************************************************************)
(* The description compiler (toolConverterUtils.ts, class OpenAPIToTools).  *)
(* A string is a sequence of runs [ch |-> c, n |-> k]: the character c     *)
(* written k times; "" is <<>>.                                            *)
(***************************************************************************)
MaxRuns == 2      \* runs of a generated input string
LongRun == 70     \* the length of a long run of one character

\* String.prototype.substring(0, 60) in generateToolName
NameLimit == 60

Chars(c, k) == [ch |-> c, n |-> k]

\* the string written with the characters of chars, one each
Str(chars) == [k \in 1..Len(chars) |-> Chars(chars[k], 1)]

LowerCase == {"a", "b", "c", "d", "e", "g", "h", "i", "l", "o", "p", "s", "t", "u", "w"}
UpperCase == {"B", "G", "W"}
Digits == {"7"}

RECURSIVE length(_)
length(str) == IF str = <<>> THEN 0 ELSE Head(str).n + length(Tail(str))

\* String.prototype.toLowerCase
lowerOf(c) ==
    CASE c = "B" -> "b" [] c = "G" -> "g" [] c = "W" -> "w" [] OTHER -> c

toLowerCase(str) == [k \in 1..Len(str) |-> Chars(lowerOf(str[k].ch), str[k].n)]

\* str.replace(/[...]/g, to): every character of the class becomes to
replaceEach(str, class, to) ==
    [k \in 1..Len(str) |-> IF str[k].ch \in class THEN Chars(to, str[k].n) ELSE str[k]]

\* str.replace(/[^...]/g, ''): only the characters of the class are kept
RECURSIVE keepOnly(_, _)
keepOnly(str, class) ==
    IF str = <<>> THEN <<>>
    ELSE (IF Head(str).ch \in class THEN <<Head(str)>> ELSE <<>>) \o keepOnly(Tail(str), class)

\* every maximal sequence of the character c becomes one c
RECURSIVE squeeze(_, _)
squeeze(str, c) ==
    IF str = <<>> THEN <<>>
    ELSE IF Head(str).ch # c THEN <<Head(str)>> \o squeeze(Tail(str), c)
    ELSE IF Len(str) > 1 /\ str[2].ch = c THEN squeeze(Tail(str), c)
    ELSE <<Chars(c, 1)>> \o squeeze(Tail(str), c)

\* the character c removed at both ends
RECURSIVE strip(_, _)
strip(str, c) ==
    IF str = <<>> THEN <<>>
    ELSE IF Head(str).ch = c THEN strip(Tail(str), c)
    ELSE IF str[Len(str)].ch = c THEN strip(SubSeq(str, 1, Len(str) - 1), c)
    ELSE str

\* String.prototype.substring(0, limit)
RECURSIVE substring(_, _)
substring(str, limit) ==
    IF str = <<>> \/ limit <= 0 THEN <<>>
    ELSE IF Head(str).n >= limit THEN <<Chars(Head(str).ch, limit)>>
    ELSE <<Head(str)>> \o substring(Tail(str), limit - Head(str).n)

hasChar(str, c) == \E k \in 1..Len(str) : str[k].ch = c

NameChars == LowerCase \cup Digits \cup {"_"}

\* actions.tsx, lines 325-327: the name prepareAllTools extracts from a summary,
\* String(operation.summary).toLowerCase().replace(/[^a-z0-9]/g, "_")
extractToolName(summary) ==
    LET lower == toLowerCase(summary)
    IN  [k \in 1..Len(lower) |->
            IF lower[k].ch \in LowerCase \cup Digits THEN lower[k] ELSE Chars("_", lower[k].n)]

\* generateToolName, lines 703-754; toolNames is <<>> or <<name>>, the entry of
\* the mapping for this method and path
generateToolName(toolNames, path, method, operation) ==
    IF toolNames # <<>> /\ toolNames[1] # <<>> THEN toolNames[1]
    ELSE IF operation.summary # <<>>
    THEN LET lower == toLowerCase(operation.summary)
             spaced == strip(squeeze(lower, " "), " ")
             joined == replaceEach(spaced, {" "}, "_")
             cleanSummary == keepOnly(joined, NameChars)
         IN  IF ~hasChar(cleanSummary, "_")
             THEN substring(toLowerCase(method) \o Str(<<"_">>) \o cleanSummary, NameLimit)
             ELSE substring(cleanSummary, NameLimit)
    ELSE IF operation.operationId # <<>>
    THEN LET cleanId == toLowerCase(replaceEach(operation.operationId, {" ", "-"}, "_"))
             finalId == keepOnly(cleanId, NameChars)
         IN  substring(toLowerCase(method) \o Str(<<"_">>) \o finalId, NameLimit)
    ELSE LET noBraces == keepOnly(path, {r.ch : r \in Range(path)} \ {"{", "}"})
             pathPart == strip(replaceEach(noBraces, {"/", "-"}, "_"), "_")
             toolName == toLowerCase(method) \o Str(<<"_">>) \o pathPart
         IN  substring(strip(squeeze(toolName, "_"), "_"), NameLimit)

\* generateTools, line 1009 (and actions.tsx, line 312): the methods looked at,
\* in this order
HttpMethods ==
    <<Str(<<"g", "e", "t">>), Str(<<"p", "o", "s", "t">>), Str(<<"p", "u", "t">>),
      Str(<<"d", "e", "l", "e", "t", "e">>), Str(<<"p", "a", "t", "c", "h">>)>>

\* A description is the sequence of the entries of its paths object:
\* [path, item], item[k] being <<>> or <<operation>> for method HttpMethods[k].
\* The places of the description where an operation with a summary stands
SummaryPlaces(spec) ==
    {ik \in (1..Len(spec)) \X (1..Len(HttpMethods)) :
        /\ spec[ik[1]].item[ik[2]] # <<>>
        /\ spec[ik[1]].item[ik[2]][1].summary # <<>>}

\* actions.tsx, lines 308-330: the mapping prepareAllTools extracts, from
\* `${method}_${path}` (written <<method, path>>) to the name made of the summary
extractToolNames(spec) ==
    [key \in {<<HttpMethods[ik[2]], spec[ik[1]].path>> : ik \in SummaryPlaces(spec)} |->
        LET ik == CHOOSE x \in SummaryPlaces(spec) :
                      key = <<HttpMethods[x[2]], spec[x[1]].path>>
        IN  extractToolName(spec[ik[1]].item[ik[2]][1].summary)]

\* tools[toolName] = {...}: a name assigned again keeps its place and takes
\* the new definition
setTool(tools, tool) ==
    IF \E k \in 1..Len(tools) : tools[k].name = tool.name
    THEN [k \in 1..Len(tools) |-> IF tools[k].name = tool.name THEN tool ELSE tools[k]]
    ELSE Append(tools, tool)

\* lines 1009-1041: the methods k.. of one path entry
RECURSIVE compileMethods(_, _, _, _)
compileMethods(entry, k, toolNames, tools) ==
    IF k > Len(HttpMethods) THEN tools
    ELSE IF entry.item[k] = <<>> THEN compileMethods(entry, k + 1, toolNames, tools)
    ELSE LET key == <<HttpMethods[k], entry.path>>
             toolName == generateToolName(
                             IF key \in DOMAIN toolNames THEN <<toolNames[key]>> ELSE <<>>,
                             entry.path, HttpMethods[k], entry.item[k][1])
         IN  compileMethods(entry, k + 1, toolNames,
                            setTool(tools, [name |-> toolName, path |-> entry.path,
                                            method |-> HttpMethods[k]]))

\* lines 1005-1042: the path entries, in the order of Object.entries
RECURSIVE compilePaths(_, _, _)
compilePaths(paths, toolNames, tools) ==
    IF paths = <<>> THEN tools
    ELSE compilePaths(Tail(paths), toolNames, compileMethods(Head(paths), 1, toolNames, tools))

\* generateTools, lines 1001-1045, of a converter made with these toolNames:
\* the tools in the order of Object.keys, each with the operation it calls
generateTools(spec, toolNames) == compilePaths(spec, toolNames, <<>>)

\* Object.keys order: a key assigned again keeps its place
addKey(keys, key) == IF key \in Range(keys) THEN keys ELSE Append(keys, key)

RECURSIVE addKeys(_, _)
addKeys(keys, more) ==
    IF more = <<>> THEN keys ELSE addKeys(addKey(keys, Head(more)), Tail(more))

TokenProperty == "skyfire_kya_pay_token"

\* lines 921-927: the parameters that are required or in the path
IsRequiredParameter(param) == param.required \/ param["in"] = "path"

NamesOf(params) == [k \in 1..Len(params) |-> params[k].name]

\* lines 930-975: the schema of the JSON body, <<>> when there is no body, no
\* JSON content, no schema, a reference, or a schema that is no object
bodySchemaOf(requestBody) ==
    IF requestBody = <<>> THEN <<>>
    ELSE IF ~requestBody[1].json THEN <<>>
    ELSE IF requestBody[1].schema = <<>> THEN <<>>
    ELSE IF requestBody[1].schema[1].ref THEN <<>>
    ELSE IF requestBody[1].schema[1].type # "object" THEN <<>>
    ELSE requestBody[1].schema

\* convertParametersToJsonSchema returning the required names it gathered
\* (validRequired) instead of every property name
convertParametersToJsonSchema_gathered(parameters, requestBody) ==
    LET schemaObj == bodySchemaOf(requestBody)
        schemaProperties == IF schemaObj = <<>> THEN <<>> ELSE schemaObj[1].properties
        schemaRequired == IF schemaObj = <<>> THEN <<>> ELSE schemaObj[1].required
        properties == addKeys(addKeys(<<TokenProperty>>, NamesOf(parameters)), schemaProperties)
        listed == NamesOf(SelectSeq(parameters, IsRequiredParameter))
                     \o SelectSeq(schemaProperties, LAMBDA n : n \in Range(schemaRequired))
        required == IF schemaRequired = <<"string">>
                    THEN listed \o SelectSeq(schemaProperties, LAMBDA n : n \notin Range(listed))
                    ELSE listed
    IN  [properties |-> properties,
         required |-> SelectSeq(required, LAMBDA n : n \in Range(properties))]

\* convertParametersToJsonSchema, lines 906-999: properties are the token
\* property, the parameters and the properties of the JSON body; the required
\* list gathered (lines 917-975) is dropped for Object.keys(properties)
convertParametersToJsonSchema(parameters, requestBody) ==
    LET schemaObj == bodySchemaOf(requestBody)
        schemaProperties == IF schemaObj = <<>> THEN <<>> ELSE schemaObj[1].properties
        properties == addKeys(addKeys(<<TokenProperty>>, NamesOf(parameters)), schemaProperties)
        finalRequired == properties
    IN  [properties |-> properties, required |-> finalRequired]

\* Response.ok: the status is in the range 200-299
responseOk(response) == response.status >= 200 /\ response.status <= 299

\* lines 856-864: the message of a response that is not ok; reading the body as
\* JSON may reject and reading .error of null throws, both caught
errorMessageOf(response) ==
    IF response.body \in {"unparsable", "null"} THEN response.statusText
    ELSE IF response.body = "errorObject" /\ response.error # "" THEN response.error
    ELSE response.statusText

\* the pieces of a text: a string, or a number written out
Piece(str) == [s |-> str, n |-> 0]

Number(num) == [s |-> "", n |-> num]

\* responseData, lines 870-880: the value response.json() parsed, or the
\* characters response.text() read
parsedData(response) ==
    [parsed |-> TRUE, body |-> response.body, error |-> response.error, text |-> <<>>]

textData(response) ==
    [parsed |-> FALSE, body |-> "", error |-> "", text |-> response.text]

noData == [parsed |-> FALSE, body |-> "", error |-> "", text |-> <<>>]

Thrown(message) == [threw |-> TRUE, message |-> message, data |-> noData]

Returned(data) == [threw |-> FALSE, message |-> <<>>, data |-> data]

\* JSON.stringify of a string: the characters between quotes, the quote, the
\* backslash and the line feed escaped
escapeChar(c) ==
    IF c = "\"" THEN <<"\\", "\"">>
    ELSE IF c = "\\" THEN <<"\\", "\\">>
    ELSE IF c = "\n" THEN <<"\\", "n">>
    ELSE <<c>>

RECURSIVE escapeChars(_)
escapeChars(chars) ==
    IF chars = <<>> THEN <<>>
    ELSE escapeChar(Head(chars)) \o escapeChars(Tail(chars))

stringifyString(chars) == <<"\"">> \o escapeChars(chars) \o <<"\"">>

\* JSON.stringify(value, null, 2) of a parsed body: null, the object
\* {"a": 1}, or an object with the one member error
stringifyValue(body, error) ==
    IF body = "null" THEN <<"null">>
    ELSE IF body = "plainObject"
    THEN <<"{", "\n", " ", " ", "\"", "a", "\"", ":", " ", "1", "\n", "}">>
    ELSE <<"{", "\n", " ", " ", "\"", "error", "\"", ":", " ">>
         \o stringifyString(<<error>>) \o <<"\n", "}">>

\* line 886: JSON.stringify(responseData, null, 2)
stringify(data) ==
    IF data.parsed THEN stringifyValue(data.body, data.error)
    ELSE stringifyString(data.text)

\* a text of the output, one piece per character
Pieces(chars) == [k \in 1..Len(chars) |-> Piece(chars[k])]

\* lines 771-891: the body of the try block; fetched is <<>> when fetch rejects
tryExecute(fetched) ==
    IF fetched = <<>> THEN Thrown(<<Piece("fetch failed")>>)
    ELSE LET response == fetched[1] IN
         IF ~responseOk(response)
         THEN Thrown(<<Piece("HTTP error! status: "), Number(response.status),
                       Piece(", message: "), Piece(errorMessageOf(response))>>)
         ELSE IF response.contentTypeJson
              THEN IF response.body = "unparsable"
                   THEN Thrown(<<Piece("Unexpected token")>>)
                   ELSE Returned(parsedData(response))
              ELSE Returned(textData(response))

\* the executor without its catch block
executor_noCatch(fetched) ==
    LET r == tryExecute(fetched) IN
    IF r.threw THEN [raised |-> TRUE, content |-> <<>>]
    ELSE [raised |-> FALSE, content |-> <<[type |-> "text", text |-> Pieces(stringify(r.data))]>>]

\* the function createExecuteFunction returns, lines 762-903: try { ... }
\* catch (error) { return { content: [{ type: "text", text: `Error: ...` }] } }
executor(fetched) ==
    LET r == tryExecute(fetched) IN
    IF r.threw
    THEN [raised |-> FALSE,
          content |-> <<[type |-> "text", text |-> <<Piece("Error: ")>> \o r.message]>>]
    ELSE [raised |-> FALSE, content |-> <<[type |-> "text", text |-> Pieces(stringify(r.data))]>>]

(***************************************************************************)
(* SpecCompiler: one call of a function of the description compiler, on    *)
(* an input drawn from the sets below.                                     *)
(***************************************************************************)
MaxParams == 2    \* parameters of an operation

InputChars == {"a", "B", " ", "-", ".", "_", "/", "{"}

Runs == {Chars(c, 1) : c \in InputChars} \cup {Chars("a", LongRun), Chars("_", LongRun)}

Strs == UNION {[1..k -> Runs] : k \in 0..MaxRuns}

\* the operation of the example: GET /widget with summary "Get Widget"
GetWidget == Str(<<"G", "e", "t", " ", "W", "i", "d", "g", "e", "t">>)

WidgetPath == Str(<<"/", "w", "i", "d", "g", "e", "t">>)

Methods == {Str(<<"g", "e", "t">>), Str(<<"p", "o", "s", "t">>)}

NameInputs ==
    {[mapped |-> mp, method |-> mt, path |-> WidgetPath,
      operation |-> [summary |-> x, operationId |-> <<>>]] :
        mp \in BOOLEAN, mt \in Methods, x \in Strs \cup {GetWidget}}
    \cup {[mapped |-> mp, method |-> mt, path |-> WidgetPath,
           operation |-> [summary |-> <<>>, operationId |-> x]] :
        mp \in BOOLEAN, mt \in Methods, x \in Strs}
    \cup {[mapped |-> mp, method |-> mt, path |-> Str(<<"/">>) \o x,
           operation |-> [summary |-> <<>>, operationId |-> <<>>]] :
        mp \in BOOLEAN, mt \in Methods, x \in Strs}

Parameters ==
    {[name |-> "id", in |-> "path", required |-> FALSE],
     [name |-> "q", in |-> "query", required |-> FALSE],
     [name |-> "q", in |-> "query", required |-> TRUE],
     [name |-> "a", in |-> "header", required |-> TRUE]}

BodySchemas ==
    {[ref |-> TRUE, type |-> "object", properties |-> <<>>, required |-> <<>>],
     [ref |-> FALSE, type |-> "array", properties |-> <<>>, required |-> <<>>]}
    \cup {[ref |-> FALSE, type |-> "object", properties |-> ps, required |-> rq] :
            ps \in {<<>>, <<"a">>, <<"a", "b">>, <<"string", "a">>},
            rq \in {<<>>, <<"string">>, <<"a">>, <<"a", "b">>, <<"missing">>}}

RequestBodies ==
    {<<>>, <<[json |-> FALSE, schema |-> <<>>]>>, <<[json |-> TRUE, schema |-> <<>>]>>}
    \cup {<<[json |-> TRUE, schema |-> <<sc>>]>> : sc \in BodySchemas}

SchemaInputs ==
    {[parameters |-> ps, requestBody |-> rb] :
        ps \in UNION {[1..k -> Parameters] : k \in 0..MaxParams}, rb \in RequestBodies}

\* what response.text() reads: plain words, a text with a quote, a text of
\* two lines
BodyTexts == {<<"o", "k">>, <<"a", "\"", "b">>, <<"l", "\n", "m">>}

Responses ==
    [status : {200, 201, 404, 500}, statusText : {"", "Not Found"},
     contentTypeJson : BOOLEAN, body : {"errorObject", "plainObject", "null", "unparsable"},
     error : {"", "no such widget"}, text : BodyTexts]

ExecuteInputs == {<<>>} \cup {<<r>> : r \in Responses}

MaxPaths == 2     \* paths of a description

SlashAB == Str(<<"/", "a", "/", "b">>)

DashAB == Str(<<"/", "a", "-", "b">>)

DescPaths == {WidgetPath, WidgetPath \o Str(<<"/", "{", "i", "d", "}">>), SlashAB, DashAB}

DescOperations ==
    {[summary |-> GetWidget, operationId |-> <<>>],
     [summary |-> Str(<<"W", "i", "d", "g", "e", "t">>), operationId |-> <<>>],
     [summary |-> <<>>, operationId |-> <<>>]}

\* a path item with operations for get and post at most
PathItems ==
    {<<g, q, <<>>, <<>>, <<>>>> :
        g \in {<<>>} \cup {<<o>> : o \in DescOperations},
        q \in {<<>>} \cup {<<o>> : o \in DescOperations}}

\* the keys of an object are distinct
Descriptions ==
    UNION {{d \in [1..n -> [path : DescPaths, item : PathItems]] :
               \A i, j \in 1..n : i # j => d[i].path # d[j].path} : n \in 0..MaxPaths}

ToolsInputs == [paths : Descriptions, mapped : BOOLEAN]

\* actions.tsx, line 334: agentContext.openApiSpecs[j].authHeader || ""
apiKeyOf(entry) == IF entry.authHeader = <<>> THEN "" ELSE entry.authHeader[1]

\* lines 596-615: the header one security scheme adds
schemeHeader(scheme, apiKey) ==
    IF scheme.type = "http" /\ scheme.scheme = "bearer"
    THEN [h \in {"Authorization"} |-> <<"Bearer ", apiKey>>]
    ELSE IF scheme.type = "http" /\ scheme.scheme = "basic"
    THEN [h \in {"Authorization"} |-> <<"Basic ", "base64", apiKey>>]
    ELSE IF scheme.type = "apiKey" /\ scheme.in = "header"
    THEN [h \in {scheme.name} |-> <<apiKey>>]
    ELSE IF scheme.type = "oauth2"
    THEN [h \in {"Authorization"} |-> <<"Bearer ", apiKey>>]
    ELSE <<>>

RECURSIVE schemeHeaders(_, _, _)
schemeHeaders(headers, schemes, apiKey) ==
    IF schemes = <<>> THEN headers
    ELSE schemeHeaders(schemeHeader(Head(schemes), apiKey) @@ headers, Tail(schemes), apiKey)

\* lines 578-620: getSecurityHeaders; schemes are the schemes of the security
\* requirements that securitySchemes knows, in order
getSecurityHeaders(apiKey, schemes) ==
    LET headers == [h \in {"Content-Type"} |-> <<"application/json">>] IN
    IF apiKey = "" THEN headers ELSE schemeHeaders(headers, schemes, apiKey)

\* lines 790-809: the header parameters found in args
RECURSIVE headerParameters(_, _, _)
headerParameters(headers, parameters, args) ==
    IF parameters = <<>> THEN headers
    ELSE LET param == Head(parameters)
             next == IF param.name \in DOMAIN args /\ param.in = "header"
                     THEN [h \in {param.name} |-> <<args[param.name]>>] @@ headers
                     ELSE headers
         IN  headerParameters(next, Tail(parameters), args)

\* lines 782-809: the headers of the request an executor sends
requestHeaders(apiKey, schemes, parameters, args) ==
    LET security == getSecurityHeaders(apiKey, schemes)
        withToken ==
            IF "skyfire_kya_pay_token" \in DOMAIN args /\ args["skyfire_kya_pay_token"] # ""
            THEN [h \in {"skyfire_kya_pay_token"} |-> <<args["skyfire_kya_pay_token"]>>]
                 @@ security
            ELSE security
    IN  headerParameters(withToken, parameters, args)

\* the security schemes a description may declare
SecuritySchemes ==
    {[type |-> "http", scheme |-> "bearer", in |-> "", name |-> ""],
     [type |-> "http", scheme |-> "basic", in |-> "", name |-> ""],
     [type |-> "http", scheme |-> "digest", in |-> "", name |-> ""],
     [type |-> "apiKey", scheme |-> "", in |-> "header", name |-> "X-API-Key"],
     [type |-> "apiKey", scheme |-> "", in |-> "query", name |-> "key"],
     [type |-> "oauth2", scheme |-> "", in |-> "", name |-> ""]}

\* the parameters of an operation, by name and place
HeaderParameterLists ==
    {<<>>} \cup {<<[name |-> n, in |-> "header"]>> : n \in {"Authorization", "X-Trace"}}
           \cup {<<[name |-> "id", in |-> "query"]>>}

\* the arguments of a call: each may be missing; the token may be empty
CallArgs ==
    UNION {[names -> {"v"}] \cup [names -> {"", "v"}] :
              names \in SUBSET {"skyfire_kya_pay_token", "Authorization", "X-Trace"}}

\* the entries detection adds to openApiSpecs
DetectedEntries == {AddSpec([openApiSpecs |-> <<>>], url).openApiSpecs[1] : url \in SpecUrls}

HeaderInputs ==
    [entry : DetectedEntries,
     schemes : {<<>>} \cup {<<sc>> : sc \in SecuritySchemes},
     parameters : HeaderParameterLists,
     args : CallArgs]

ConvCall(call, input) == [call |-> call, input |-> input, output |-> <<>>]

InitCompiler ==
    /\ pc = [p \in Procs |-> "idle"]
    /\ testMode = TRUE
    /\ faultBudget = 0
    /\ redisClient = FALSE
    /\ usageCount = 0
    /\ usageTtl = <<>>
    /\ newCount = [p \in Procs |-> <<>>]
    /\ gateLog = [p \in Procs |-> <<>>]
    /\ result = [p \in Procs |-> NoResult]
    /\ InitLoopVars
    /\ callerContext.conversation_history = <<>>
    /\ \/ \E x \in NameInputs : conv = ConvCall("generateToolName", x)
       \/ \E x \in SchemaInputs : conv = ConvCall("convertParametersToJsonSchema", x)
       \/ \E x \in ExecuteInputs : conv = ConvCall("execute", x)
       \/ \E x \in ToolsInputs : conv = ConvCall("generateTools", x)
       \/ \E x \in HeaderInputs : conv = ConvCall("requestHeaders", x)

\* generateTools, line 1014, with the mapping prepareAllTools passes (actions.tsx,
\* lines 309-336) or with none
GenerateToolName ==
    /\ conv.call = "generateToolName"
    /\ conv.output = <<>>
    /\ LET x == conv.input
           toolNames == IF x.mapped /\ x.operation.summary # <<>>
                        THEN <<extractToolName(x.operation.summary)>> ELSE <<>>
       IN  conv' = [conv EXCEPT
                       !.output = <<generateToolName(toolNames, x.path, x.method, x.operation)>>]
    /\ UNCHANGED gateVars
    /\ UNCHANGED loopVars

\* generateTools, line 1032
ConvertParameters ==
    /\ conv.call = "convertParametersToJsonSchema"
    /\ conv.output = <<>>
    /\ conv' = [conv EXCEPT !.output =
                   <<convertParametersToJsonSchema(conv.input.parameters,
                                                   conv.input.requestBody)>>]
    /\ UNCHANGED gateVars
    /\ UNCHANGED loopVars

\* a call of the execute function of a compiled tool
ExecuteTool ==
    /\ conv.call = "execute"
    /\ conv.output = <<>>
    /\ conv' = [conv EXCEPT !.output = <<executor(conv.input)>>]
    /\ UNCHANGED gateVars
    /\ UNCHANGED loopVars

\* actions.tsx, lines 332-337: new OpenAPIToTools(spec, authHeader, toolNames)
\* and generateTools(); a converter made without toolNames takes {} (line 556)
GenerateTools ==
    /\ conv.call = "generateTools"
    /\ conv.output = <<>>
    /\ LET x == conv.input
           toolNames == IF x.mapped THEN extractToolNames(x.paths) ELSE <<>>
       IN  conv' = [conv EXCEPT !.output = <<generateTools(x.paths, toolNames)>>]
    /\ UNCHANGED gateVars
    /\ UNCHANGED loopVars

\* actions.tsx, lines 332-336, and toolConverterUtils.ts, lines 782-809: the
\* converter made for an entry of openApiSpecs, and the headers an executor
\* of its tools puts on its request
RequestHeaders ==
    /\ conv.call = "requestHeaders"
    /\ conv.output = <<>>
    /\ LET x == conv.input IN
       conv' = [conv EXCEPT !.output =
                   <<requestHeaders(apiKeyOf(x.entry), x.schemes, x.parameters, x.args)>>]
    /\ UNCHANGED gateVars
    /\ UNCHANGED loopVars

NextCompiler ==
    GenerateToolName \/ ConvertParameters \/ ExecuteTool \/ GenerateTools \/ RequestHeaders

SpecCompiler == InitCompiler /\ [][NextCompiler]_vars

(***************************************************************************)
(* Properties.                                                             *)
(***************************************************************************)
ResultOk == pc[Main] = "returned" /\ result[Main].kind = "ok"

Count(seq, Test(_)) == Cardinality({k \in 1..Len(seq) : Test(seq[k])})

IsUserMessage(m) == m.role = "user"

\* C1: at the test of line 229 a further round (a further runAgent call, hence
\* a further registry build and model call) starts if and only if some tool
\* call of some step of the round names a bootstrap tool, and otherwise the
\* call returns; an invocation whose model never calls a bootstrap tool makes
\* exactly one round: one build (one connection, to the static server) and one
\* model call (one user message).
C1_RerunIffBootstrap ==
    /\ [][pc[Main] = "decide" =>
            /\ (pc'[Main] = "prepareAllTools" /\ rounds' = rounds + 1)
                   <=> HasBootstrapCall(Top.steps)
            /\ ~HasBootstrapCall(Top.steps) =>
                   pc'[Main] \in {"resumed", "returned"} /\ rounds' = rounds]_vars
    /\ [](ResultOk /\ bootstrapRounds = 0 =>
            /\ rounds = 1
            /\ Len(connectLog) = 1
            /\ Count(result[Main].agentContext[1].conversation_history, IsUserMessage) = 1)

\* a first round with a bootstrap call, a second round without one, and the return
C1_Witness == ResultOk /\ rounds = 2 /\ bootstrapRounds = 1

\* the entries formatOutput is to push for one step: one for a step without
\* tool calls, else one for each call and one more for each call of a
\* token-issuing tool whose result ends in a well-formed signed token
EntriesOfStep(step) ==
    IF Len(step.toolCalls) = 0 THEN 1
    ELSE Len(step.toolCalls)
         + Cardinality({k \in 1..Len(step.toolCalls) :
                            /\ step.toolCalls[k].toolName \in TokenTools
                            /\ step.toolResults[k] = "jwt"})

RECURSIVE EntriesOfSteps(_)
EntriesOfSteps(steps) ==
    IF steps = <<>> THEN 0 ELSE EntriesOfStep(Head(steps)) + EntriesOfSteps(Tail(steps))

\* C2 as stated: with no bootstrap call, the returned trace has as many entries
\* as the model returned steps.
C2_TraceLengthIsStepCount ==
    [][(pc[Main] = "decide" /\ Len(frames) = 1 /\ ~HasBootstrapCall(Top.steps)
           /\ pc'[Main] = "returned")
          => Len(result'[Main].steps) = Len(Top.steps)]_vars

\* C2 as amended: with no bootstrap call, the returned trace has one entry for
\* each step without tool calls, one for each tool call, and one more for each
\* call of a token-issuing tool whose result holds a well-formed signed token.
C2_TraceLengthIsEntryCount ==
    [][(pc[Main] = "decide" /\ Len(frames) = 1 /\ ~HasBootstrapCall(Top.steps)
           /\ pc'[Main] = "returned")
          => Len(result'[Main].steps) = EntriesOfSteps(Top.steps)]_vars

\* one round, and a trace longer than the model's list of steps
C2_Witness ==
    ResultOk /\ rounds = 1 /\ bootstrapRounds = 0 /\ Len(result[Main].steps) > stepsMade

IsMountCall(c) == c.toolName = "connect-mcp-server-tool"

\* C3 as stated: once the run has its context, no dynamically mounted server is
\* removed or replaced and the list only grows at its end, and after the
\* detection of a round the URL of every mount call of that round is in it.
C3_MountedServersKept ==
    [][frames # <<>> =>
          LET before == agentContext.dynamically_mounted_server
              after == agentContext'.dynamically_mounted_server
          IN  /\ Len(before) <= Len(after)
              /\ \A k \in 1..Len(before) : after[k] = before[k]
              /\ pc[Main] = "detect" =>
                   \A c \in Range(AllToolCalls(Top.steps)) :
                       IsMountCall(c) =>
                           \E k \in 1..Len(after) : after[k].url = c.args.mcpServerUrl]_vars

IsMountEntry(e) == e.tool = "connect-mcp-server-tool"

\* the URL of the last mount call in a trace
LastMountUrl(formattedSteps) ==
    LET mounts == SelectSeq(formattedSteps, IsMountEntry)
    IN  mounts[Len(mounts)].input.mcpServerUrl

\* the registry build of round 2 has run to its end, and round 1 called the
\* mount tool
Round2Built ==
    /\ rounds = 2
    /\ pc[Main] = "invokeModel"
    /\ \E e \in Range(Top.initialFormattedSteps) : IsMountEntry(e)

\* the URLs the registry builder treats as protocol servers
IsProtocolServerUrl(url) ==
    /\ ~endsWith(url, ".json")
    /\ endsWith(url, "/mcp") \/ endsWith(url, "/sse") \/ ~includes(url, ".json")

C5_UsageOfFinalRound ==
    (ResultOk /\ rounds >= 2) => result[Main].usage = <<rounds>>

\* C6: a result is returned (by the innermost call, and then by its callers)
\* only after a round without a bootstrap call, and every round with a
\* bootstrap call was followed by a further round whatever the depth reached
\* and whatever was mounted before: rounds = bootstrapping rounds + 1.
C6_ReturnsOnlyAfterQuietRound ==
    /\ (ResultOk \/ pc[Main] = "resumed") => rounds = bootstrapRounds + 1
    /\ pc[Main] \in {"prepareAllTools", "openApiSpecs", "mcpServers", "invokeModel",
                     "generateText", "formatOutput", "detect"}
          => (bootstrapRounds = rounds - 1 /\ Len(frames) = rounds)
    /\ pc[Main] = "decide"
          => bootstrapRounds = rounds - (IF HasBootstrapCall(Top.steps) THEN 0 ELSE 1)

\* three rounds, the first two mounting the same URL
C6_Witness ==
    /\ ResultOk
    /\ rounds = 3
    /\ \E a, b \in 1..Len(result[Main].steps) :
          /\ a < b
          /\ IsMountEntry(result[Main].steps[a])
          /\ IsMountEntry(result[Main].steps[b])
          /\ result[Main].steps[a].input = result[Main].steps[b].input

(***************************************************************************)
(* Properties of the quota gate.                                           *)
(***************************************************************************)
OpsOf(p, name) == {k \in 1..Len(gateLog[p]) : gateLog[p][k].op = name}

\* C7: outside test mode, when the limit check reads a stored count that has
\* reached the cap, getAgent returns the quota document (error, dailyCap,
\* currentUsage, no steps, no usage) and the counter stays as it is; and an
\* invocation that returned it made no increment, built no registry and
\* called no model.
C7_QuotaExceeded ==
    /\ [][(/\ pc[Main] = "checkLimit"
           /\ usageCount >= DailyCap
           /\ gateLog'[Main] = Append(gateLog[Main], Op("get", TRUE)))
          => /\ pc'[Main] = "returned"
             /\ result'[Main].error = TRUE
             /\ result'[Main].redisError = FALSE
             /\ result'[Main].dailyCap = <<DailyCap>>
             /\ result'[Main].currentUsage = <<usageCount>>
             /\ result'[Main].steps = <<>>
             /\ result'[Main].usage = <<>>
             /\ usageCount' = usageCount]_vars
    /\ [](result[Main].kind = "quota" =>
             /\ pc[Main] = "returned"
             /\ ~testMode
             /\ OpsOf(Main, "incr") = {}
             /\ rounds = 0 /\ frames = <<>> /\ registry = <<>> /\ stepsMade = 0)

\* the counter at the cap, the read succeeded and the quota document came back
C7_Witness ==
    /\ result[Main].kind = "quota"
    /\ usageCount >= DailyCap
    /\ result[Main].currentUsage = <<usageCount>>

\* C8 as stated: outside test mode, once a store operation of the gate has
\* failed the invocation has returned the infrastructure error document and
\* runs no round.
C8_NeverUngoverned ==
    (~testMode /\ \E k \in 1..Len(gateLog[Main]) : ~gateLog[Main][k].ok)
        => /\ pc[Main] = "returned"
           /\ result[Main].error = TRUE
           /\ result[Main].redisError = TRUE
           /\ result[Main].steps = <<>>
           /\ result[Main].usage = <<>>
           /\ rounds = 0

AllStoreOpsOk == \A p \in Procs : \A k \in 1..Len(gateLog[p]) : gateLog[p][k].ok

\* C9 as stated, and only for runs in which the store answered every
\* operation (so that every invocation that has run the agent is counted in
\* the stored counter): the stored counter never exceeds the cap, and neither
\* does the number of invocations of the date that have passed the limit
\* check, those already counted plus those about to increment.
C9_CapBoundsInvocations ==
    (~testMode /\ AllStoreOpsOk)
        => /\ usageCount <= DailyCap
           /\ usageCount + Cardinality({p \in Procs : pc[p] = "increment"}) <= DailyCap

\* C10: in test mode the invocation performs no store operation, returns no
\* gate error, leaves the stored counter as it is, and goes from its start
\* straight to the agent run.
C10_TestModeBypass ==
    /\ [](testMode => gateLog[Main] = <<>> /\ result[Main].kind \notin {"redisError", "quota"})
    /\ [][testMode => usageCount' = usageCount]_vars
    /\ [][(testMode /\ pc[Main] = "start") => pc'[Main] = "freshContext"]_vars

\* test mode, no store client, the counter at the cap, and the model is called
C10_Witness ==
    /\ testMode /\ ~redisClient /\ usageCount >= DailyCap
    /\ pc[Main] = "generateText" /\ rounds = 1 /\ gateLog[Main] = <<>>

(***************************************************************************)
(* Properties of the usage counter.                                        *)
(***************************************************************************)
\* the store operations invocation p performs in the step
NewOps(p) == SubSeq(gateLog'[p], Len(gateLog[p]) + 1, Len(gateLog'[p]))

\* C11: when the store answers the operations of an increment, the increment
\* that finds no count for the date stores 1, returns 1 and sets an expiry of
\* 86400 seconds on the key; an increment that finds a count n stores and
\* returns n + 1 and performs no expire operation (the expiry stays as it is).
C11_FirstIncrementSetsExpiry ==
    [][\A p \in Procs :
          (/\ pc[p] = "increment" /\ pc'[p] = "freshContext"
           /\ \A k \in 1..Len(NewOps(p)) : NewOps(p)[k].ok)
          => /\ usageCount' = usageCount + 1
             /\ newCount'[p] = <<usageCount + 1>>
             /\ IF usageCount = 0
                THEN /\ usageTtl' = <<86400>>
                     /\ NewOps(p) = <<Op("incr", TRUE), Op("expire", TRUE)>>
                ELSE /\ usageTtl' = usageTtl
                     /\ NewOps(p) = <<Op("incr", TRUE)>>]_vars

\* two increments on the date: the first returned 1, the second 2, and one
\* expire operation was performed in all
C11_Witness ==
    \E p, q \in Procs :
        /\ newCount[p] = <<1>> /\ newCount[q] = <<2>>
        /\ usageCount = 2 /\ usageTtl = <<86400>>
        /\ OpsOf(p, "expire") # {} /\ OpsOf(q, "expire") = {}
        /\ AllStoreOpsOk

(***************************************************************************)
(* Properties of the failure paths and of the registry.                    *)
(***************************************************************************)
\* C12 as stated: an invocation that has ended has returned a document, the
\* result of the run or a structured error document (error: true, no steps,
\* no usage); it never ends with an exception raised to the caller.
C12_FatalPathsReturnDocument ==
    /\ pc[Main] # "threw"
    /\ pc[Main] = "returned" =>
          \/ result[Main].kind = "ok"
          \/ /\ result[Main].kind \in {"quota", "redisError"}
             /\ result[Main].error = TRUE
             /\ result[Main].steps = <<>>
             /\ result[Main].usage = <<>>

\* C13 as stated: while the builder goes through the protocol servers, a
\* server whose URL is well formed never makes the build end in an
\* exception: the builder goes on to the next server or returns the registry.
C13_BuildNeverAborted ==
    [][(/\ pc[Main] = "mcpServers"
        /\ build.i <= Len(build.mcpServers)
        /\ validURL(build.mcpServers[build.i].url))
       => pc'[Main] \in {"mcpServers", "invokeModel"}]_vars

\* C14: every tool name of the registry the builder returns has at most 64
\* characters; the builder's last step keeps exactly the tools gathered whose
\* name has at most 64 characters and hands the registry to the model call.
C14_RegistryNamesAtMost64 ==
    /\ [](\A n \in DOMAIN registry : toolNameLength(n) <= 64)
    /\ [][(pc[Main] = "mcpServers" /\ build.i > Len(build.mcpServers))
            => /\ pc'[Main] = "invokeModel"
               /\ DOMAIN registry' = {n \in DOMAIN build.allTools : toolNameLength(n) <= 64}
               /\ \A n \in DOMAIN registry' : registry'[n] = build.allTools[n]]_vars

\* a registry built with the seller's server connected: its 65-character tool
\* is left out, its other tool and the built-in tools are kept
C14_Witness ==
    /\ pc[Main] = "generateText"
    /\ <<rounds, <<"https://seller.example", "/mcp">>>> \in Range(connectLog)
    /\ LongToolName \notin DOMAIN registry
    /\ "execute_companyresearcher_tool" \in DOMAIN registry
    /\ BootstrapTools \subseteq DOMAIN registry

\* C15: whenever a model call is prepared or running, the registry holds both
\* bootstrap tool names.
C15_BootstrapToolsInRegistry ==
    pc[Main] \in {"invokeModel", "generateText"}
        => /\ "connect-mcp-server-tool" \in DOMAIN registry
           /\ "convert-openapi-spec-to-agent-tool" \in DOMAIN registry

\* round 2, with a mounted server and a compiled description in the context
C15_Witness ==
    /\ pc[Main] = "generateText" /\ rounds = 2
    /\ agentContext.dynamically_mounted_server # <<>>
    /\ agentContext.openApiSpecs # <<>>
    /\ "get_widget" \in DOMAIN registry
    /\ BootstrapTools \subseteq DOMAIN registry

\* the tool calls the model has made so far in the running model call
GenCalls == AllToolCalls(gen)

\* C16: a step of the running model call (the execution of its tool calls,
\* bootstrap tools included) leaves the context and the registry as they
\* are; the mounted servers and the compiled descriptions of the context
\* change only in the detection step after the model call (or when getAgent
\* makes the fresh context), the registry only when a build ends, and every
\* other tool the model calls is a tool of the registry of its round.
C16_BootstrapExecutionHasNoEffect ==
    /\ [][(pc[Main] = "generateText" /\ pc'[Main] = "generateText")
            => (agentContext' = agentContext /\ registry' = registry)]_vars
    /\ [][(\/ agentContext'.dynamically_mounted_server # agentContext.dynamically_mounted_server
           \/ agentContext'.openApiSpecs # agentContext.openApiSpecs)
            => pc[Main] \in {"detect", "freshContext"}]_vars
    /\ [][registry' # registry => (pc[Main] = "mcpServers" /\ pc'[Main] = "invokeModel")]_vars
    /\ [](\A c \in Range(GenCalls) :
             c.toolName \notin BootstrapTools => c.toolName \in DOMAIN registry)

\* the model has called the mount tool for the seller's server in round 1 and
\* goes on: nothing is mounted and the seller's tools are not in the registry
C16_Witness ==
    /\ pc[Main] = "generateText" /\ rounds = 1
    /\ Len(gen) = 2
    /\ \E c \in Range(AllToolCalls(<<gen[1]>>)) :
          /\ c.toolName = "connect-mcp-server-tool"
          /\ c.args.mcpServerUrl = <<"https://seller.example", "/mcp">>
    /\ agentContext.dynamically_mounted_server = <<>>
    /\ "execute_companyresearcher_tool" \notin DOMAIN registry

(***************************************************************************)
(* Properties of the description compiler.                                 *)
(***************************************************************************)
Done(call) == conv.call = call /\ conv.output # <<>>

\* C17 as stated: every name generateToolName returns has at most 64
\* characters, all of them lower-case letters, digits or underscores.
C17_CompiledNamesWellFormed ==
    Done("generateToolName")
        => /\ length(conv.output[1]) <= 64
           /\ \A r \in Range(conv.output[1]) : r.ch \in NameChars

\* the message the claim expects for a response that is not ok: the error of
\* the JSON body if there is one to read, else the status text
ExpectedMessage(response) ==
    IF response.body = "errorObject" /\ response.error # "" THEN response.error
    ELSE response.statusText

\* C18: the executor never raises: it returns one content entry of type text,
\* whether fetch rejects, the response is not ok or its body cannot be parsed;
\* for a response that is not ok the text holds the status code and the
\* error message.
C18_ExecutorNeverRaises ==
    Done("execute")
        => /\ ~conv.output[1].raised
           /\ Len(conv.output[1].content) = 1
           /\ conv.output[1].content[1].type = "text"
           /\ (conv.input # <<>> /\ conv.input[1].status \notin 200..299)
                 => /\ Number(conv.input[1].status) \in Range(conv.output[1].content[1].text)
                    /\ Piece(ExpectedMessage(conv.input[1]))
                          \in Range(conv.output[1].content[1].text)

\* a 404 whose JSON body carries an error message
C18_Witness ==
    /\ Done("execute")
    /\ conv.input # <<>>
    /\ conv.input[1].status = 404
    /\ conv.input[1].body = "errorObject"
    /\ conv.output[1].content[1].text =
          <<Piece("Error: "), Piece("HTTP error! status: "), Number(404),
            Piece(", message: "), Piece("no such widget")>>

\* C19: the required list of a compiled schema names every property once and
\* nothing else, the token property among them; with no parameter and no body
\* it is the token property alone, and a body requiring ["string"] with
\* properties a and b gives the token property, a and b.
C19_EveryPropertyRequired ==
    Done("convertParametersToJsonSchema")
        => LET out == conv.output[1]
               x == conv.input
           IN  /\ Range(out.required) = Range(out.properties)
               /\ Cardinality(Range(out.required)) = Len(out.required)
               /\ TokenProperty \in Range(out.required)
               /\ Range(out.properties) =
                     {TokenProperty} \cup Range(NamesOf(x.parameters))
                        \cup (IF bodySchemaOf(x.requestBody) = <<>> THEN {}
                              ELSE Range(bodySchemaOf(x.requestBody)[1].properties))
               /\ (x.parameters = <<>> /\ x.requestBody = <<>>)
                     => out.required = <<TokenProperty>>
               /\ (/\ x.parameters = <<>>
                   /\ bodySchemaOf(x.requestBody) # <<>>
                   /\ bodySchemaOf(x.requestBody)[1].properties = <<"a", "b">>
                   /\ bodySchemaOf(x.requestBody)[1].required = <<"string">>)
                     => Range(out.required) = {TokenProperty, "a", "b"}

\* the body of the example: required ["string"], properties a and b
C19_Witness ==
    /\ Done("convertParametersToJsonSchema")
    /\ conv.input.parameters = <<>>
    /\ bodySchemaOf(conv.input.requestBody) # <<>>
    /\ bodySchemaOf(conv.input.requestBody)[1].properties = <<"a", "b">>
    /\ bodySchemaOf(conv.input.requestBody)[1].required = <<"string">>
    /\ conv.output[1].required = <<TokenProperty, "a", "b">>

(***************************************************************************)
(* Properties of the context.                                              *)
(***************************************************************************)
\* the context getAgent makes: the static server, nothing mounted, no
\* description, the system prompt
FreshOf(url) ==
    [available_mcp_servers |-> <<[url |-> url, headers |-> {"skyfire-api-key"}]>>,
     dynamically_mounted_server |-> <<>>,
     openApiSpecs |-> <<>>,
     conversation_history |-> <<Msg("system", "systemPrompt")>>]

\* C20: the object the caller passed is never changed, and the state the run
\* starts from is the same whatever that object holds: the fresh context made
\* from the environment alone, one runAgent call without earlier steps, no
\* registry, no connection made; hence a run whose model never mounts
\* anything connects to the static server only and returns a context in
\* which nothing is mounted, even when the caller's context had a mounted
\* server and a history.
C20_ContextIsFresh ==
    /\ [][callerContext' = callerContext]_vars
    /\ [][pc[Main] = "freshContext"
            => /\ \E url \in SkyfireMcpUrls : agentContext' = FreshOf(url)
               /\ frames' = <<Frame(<<>>)>>
               /\ rounds' = 1
               /\ <<build', registry', gen', returned', connectLog'>>
                     = <<NoBuild, <<>>, <<>>, <<>>, <<>>>>
               /\ <<callsMade', stepsMade', bootstrapRounds'>> = <<0, 0, 0>>]_vars
    /\ [](\A c \in Range(connectLog) :
             c[1] = 1 => c[2] = agentContext.available_mcp_servers[1].url)
    /\ []((ResultOk /\ bootstrapRounds = 0)
             => /\ result[Main].agentContext[1].dynamically_mounted_server = <<>>
                /\ result[Main].agentContext[1].openApiSpecs = <<>>
                /\ result[Main].agentContext[1].conversation_history[1]
                      = Msg("system", "systemPrompt")
                /\ Count(result[Main].agentContext[1].conversation_history, IsUserMessage) = 1)

\* the caller passed a context with a mounted server and a history, and the
\* run returned after one round
C20_Witness ==
    /\ ResultOk /\ rounds = 1
    /\ callerContext.dynamically_mounted_server # <<>>
    /\ callerContext.conversation_history # <<>>
    /\ result[Main].agentContext[1].dynamically_mounted_server = <<>>

(***************************************************************************)
(* Properties of the history.                                              *)
(***************************************************************************)
IsPrefix(s, t) == Len(s) <= Len(t) /\ SubSeq(t, 1, Len(s)) = s

History == agentContext.conversation_history

\* C21: once the run has its context (rounds >= 1), every step leaves the
\* history it found as a prefix of the history it leaves: resource reads, the
\* user message, the model's messages and the synthetic system message are
\* all appended, nothing is removed or rewritten.
C21_HistoryAppendOnly ==
    [][rounds >= 1 => IsPrefix(History, agentContext'.conversation_history)]_vars

\* a run of two rounds returned, and its history holds a resource read, the
\* user message, the model's messages and the synthetic system message
C21_Witness ==
    /\ ResultOk /\ rounds = 2
    /\ \A m \in {Msg("system", "systemPrompt"), Msg("system", "resource"),
                 Msg("user", "input"), Msg("assistant", "step"), Msg("tool", "results"),
                 Msg("system", "connectedMcp")} : m \in Range(History)

\* C22: the history a successful invocation returns holds exactly one user
\* message, whatever the number of rounds.
C22_OneUserMessage ==
    ResultOk => Count(result[Main].agentContext[1].conversation_history, IsUserMessage) = 1

(***************************************************************************)
(* Properties of the trace.                                                *)
(***************************************************************************)
\* the formatted steps of rounds r..Len(perRound), one round after the other,
\* each round formatted on its own
RECURSIVE TraceOfRounds(_, _)
TraceOfRounds(perRound, r) ==
    IF r > Len(perRound) THEN <<>>
    ELSE formatOutput(perRound[r], <<>>) \o TraceOfRounds(perRound, r + 1)

\* C23: the trace a successful invocation of k rounds returns is, entry by
\* entry as the returned JSON document writes them, the formatted steps of
\* round 1, then those of round 2, ..., then those of round k.
C23_TraceIsConcatenationOfRounds ==
    ResultOk => /\ Len(roundSteps) = rounds
                /\ jsonRoundTrip(result[Main].steps)
                      = jsonRoundTrip(TraceOfRounds(roundSteps, 1))

\* two rounds returned, each with entries of its own in the trace
C23_Witness ==
    /\ ResultOk /\ rounds = 2
    /\ formatOutput(roundSteps[1], <<>>) # <<>>
    /\ formatOutput(roundSteps[2], <<>>) # <<>>
    /\ formatOutput(roundSteps[1], <<>>) # formatOutput(roundSteps[2], <<>>)

(***************************************************************************)
(* Properties of the step formatter.                                       *)
(***************************************************************************)
IsDecodeEntry(e) == e = DecodedStep

\* the entries formatOutput pushes for the steps, the token-decode entries
\* left out
PlainEntries(steps) ==
    SelectSeq(formatOutput(steps, <<>>), LAMBDA e : ~IsDecodeEntry(e))

\* the tool names the entries of one step should carry: "thinking" for a step
\* without tool calls, else the names of its calls in order
RECURSIVE SlotsOf(_)
SlotsOf(steps) ==
    IF steps = <<>> THEN <<>>
    ELSE (IF Len(Head(steps).toolCalls) = 0 THEN <<"thinking">>
          ELSE [k \in 1..Len(Head(steps).toolCalls) |-> Head(steps).toolCalls[k].toolName])
         \o SlotsOf(Tail(steps))

\* C24 as stated: a single step with n tool calls is formatted to n + 1
\* entries, token-decode entries not counted.
C24_ThinkingPlusCalls ==
    \A r \in 1..Len(roundSteps) : \A k \in 1..Len(roundSteps[r]) :
        Len(PlainEntries(<<roundSteps[r][k]>>)) = Len(roundSteps[r][k].toolCalls) + 1

\* C24 as amended: a step without tool calls is formatted to one "thinking"
\* entry, a step with n >= 1 tool calls to n entries, one for each call and
\* none for the step itself; the entries of a round follow the order of the
\* steps and, within a step, of its calls (token-decode entries not counted).
C24_ThinkingOrCalls ==
    \A r \in 1..Len(roundSteps) :
        LET entries == PlainEntries(roundSteps[r]) IN
        /\ \A k \in 1..Len(roundSteps[r]) :
              Len(PlainEntries(<<roundSteps[r][k]>>))
                 = IF Len(roundSteps[r][k].toolCalls) = 0 THEN 1
                   ELSE Len(roundSteps[r][k].toolCalls)
        /\ [k \in 1..Len(entries) |-> entries[k].tool] = SlotsOf(roundSteps[r])

\* a round whose steps include one without tool calls, one with two calls and
\* a token-decode entry
C24_Witness ==
    \E r \in 1..Len(roundSteps) :
        /\ \E k \in 1..Len(roundSteps[r]) : Len(roundSteps[r][k].toolCalls) = 0
        /\ \E k \in 1..Len(roundSteps[r]) : Len(roundSteps[r][k].toolCalls) = 2
        /\ Len(formatOutput(roundSteps[r], <<>>)) > Len(PlainEntries(roundSteps[r]))

(***************************************************************************)
(* Properties of generateTools.                                            *)
(***************************************************************************)
\* the (path, method) pairs of a description that have an operation
OperationPairs(spec) ==
    {<<spec[ik[1]].path, HttpMethods[ik[2]]>> :
        ik \in {x \in (1..Len(spec)) \X (1..Len(HttpMethods)) : spec[x[1]].item[x[2]] # <<>>}}

\* C25: generateTools returns as many tools as the description has (path,
\* method) pairs with an operation.
C25_OneToolPerOperation ==
    (conv.call = "generateTools" /\ conv.output # <<>>)
        => Len(conv.output[1]) = Cardinality(OperationPairs(conv.input.paths))

(***************************************************************************)
(* Properties of the names the registry builder compiles.                  *)
(***************************************************************************)
\* the summary as the naming rule cleans it: lower case, runs of spaces made
\* one underscore, no space at the ends, nothing but [a-z0-9_] kept
SanitizedSummary(summary) ==
    keepOnly(replaceEach(strip(squeeze(toLowerCase(summary), " "), " "), {" "}, "_"),
             NameChars)

\* the name the summary rule gives: the verb, an underscore and the token for
\* a single token, else the sanitized summary, cut to the name limit
NameBySummaryRule(method, summary) ==
    LET clean == SanitizedSummary(summary)
    IN  substring(IF hasChar(clean, "_") THEN clean
                  ELSE toLowerCase(method) \o Str(<<"_">>) \o clean, NameLimit)

\* C26: an operation with a summary, compiled with the mapping the registry
\* builder passes, gets the name of the summary rule.
C26_BuilderNamesBySummaryRule ==
    (conv.call = "generateToolName" /\ conv.output # <<>> /\ conv.input.mapped
        /\ conv.input.operation.summary # <<>>)
        => conv.output[1] = NameBySummaryRule(conv.input.method, conv.input.operation.summary)

\* C27: every name generateToolName returns, by whichever route (the mapping
\* the builder passes, the summary, the operation identifier, the path), is
\* made of [a-z0-9_] only and has at most 60 characters.
C27_EveryRouteSanitizedAndCut ==
    (conv.call = "generateToolName" /\ conv.output # <<>>)
        => /\ \A k \in 1..Len(conv.output[1]) : conv.output[1][k].ch \in NameChars
           /\ length(conv.output[1]) <= NameLimit

(***************************************************************************)
(* Properties of the registry build.                                       *)
(***************************************************************************)
\* the sources of a build in build order, each with the tools it defines: the
\* built-in tools, the descriptions in context order, the protocol servers in
\* mounted order
SourcesOf(ctx) ==
    <<connectMcpServerTool, convertOpenApiSpecToAgentTool>>
    \o [j \in 1..Len(ctx.openApiSpecs) |-> SpecTools(ctx.openApiSpecs[j].url)]
    \o LET servers == SelectSeq(ctx.available_mcp_servers \o ctx.dynamically_mounted_server,
                                isMcpServer)
       IN  [i \in 1..Len(servers) |-> ServerTools(servers[i].url)]

DefinersOf(sources, n) == {k \in 1..Len(sources) : n \in DOMAIN sources[k]}

LastDefiner(sources, n) ==
    CHOOSE k \in DefinersOf(sources, n) : \A m \in DefinersOf(sources, n) : m <= k

\* C28: when the builder returns, every name of the registry maps to the
\* definition of the last source, in build order, that defines it; a name
\* defined by several sources does not stop the build.
C28_LaterDefinitionWins ==
    [][(pc[Main] = "mcpServers" /\ pc'[Main] = "invokeModel")
          => LET sources == SourcesOf(agentContext) IN
             \A n \in DOMAIN registry' :
                 /\ DefinersOf(sources, n) # {}
                 /\ registry'[n] = sources[LastDefiner(sources, n)][n]]_vars

\* a registry was returned in which get_widget, defined by a compiled
\* description and then by the mounted server, is the server's
C28_Witness ==
    /\ pc[Main] = "invokeModel"
    /\ Len(agentContext.openApiSpecs) > 0
    /\ Cardinality(DefinersOf(SourcesOf(agentContext), "get_widget")) > 1
    /\ registry["get_widget"] = <<"https://seller.example", "/mcp">>

\* a protocol-server URL in the words of the claim
EndsInTransportOrHasNoJson(url) ==
    endsWith(url, "/mcp") \/ endsWith(url, "/sse") \/ ~includes(url, ".json")

\* the URLs build round r opened a transport to, in order
ConnectedIn(r) ==
    LET mine == SelectSeq(connectLog, LAMBDA c : c[1] = r)
    IN  [k \in 1..Len(mine) |-> mine[k][2]]

IsConvertCall(c) == c.toolName = "convert-openapi-spec-to-agent-tool"

\* the URLs of the compile calls of rounds r..last, in the order of the calls
RECURSIVE ConvertUrls(_, _, _)
ConvertUrls(perRound, r, last) ==
    IF r > last THEN <<>>
    ELSE LET calls == SelectSeq(AllToolCalls(perRound[r]), IsConvertCall)
         IN  [k \in 1..Len(calls) |-> calls[k].args.openApiSpecUrl]
             \o ConvertUrls(perRound, r + 1, last)

\* the rounds whose steps have been scanned for bootstrap calls
ScannedRounds ==
    IF pc[Main] \in {"formatOutput", "detect"} THEN Len(roundSteps) - 1 ELSE Len(roundSteps)

SpecUrlsOf(ctx) == [j \in 1..Len(ctx.openApiSpecs) |-> ctx.openApiSpecs[j].url]

FetchedIn(r) ==
    LET mine == SelectSeq(fetchLog, LAMBDA f : f[1] = r)
    IN  [k \in 1..Len(mine) |-> mine[k][2]]

\* C30: during a run the compiled descriptions of the context are, in order,
\* the URLs of all compile calls scanned so far, one entry for each call; no
\* step removes or changes an entry; and every build that gets past its
\* descriptions has fetched each entry of the list, in order, once more.
C30_DescriptionsAccumulate ==
    /\ [](rounds >= 1 => SpecUrlsOf(agentContext) = ConvertUrls(roundSteps, 1, ScannedRounds))
    /\ [][rounds >= 1 => IsPrefix(agentContext.openApiSpecs, agentContext'.openApiSpecs)]_vars
    /\ []((pc[Main] \in {"mcpServers", "invokeModel"})
             => FetchedIn(rounds) = SpecUrlsOf(agentContext))

\* rounds 1 and 2 each made a compile call, and the build of round 3 has
\* fetched both descriptions, the first of them for the second time
C30_Witness ==
    /\ pc[Main] = "invokeModel" /\ rounds = 3
    /\ Len(agentContext.openApiSpecs) = 2
    /\ ConvertUrls(roundSteps, 1, 1) # <<>> /\ ConvertUrls(roundSteps, 2, 2) # <<>>
    /\ FetchedIn(2) = ConvertUrls(roundSteps, 1, 1)
    /\ FetchedIn(3) = SpecUrlsOf(agentContext)

(***************************************************************************)
(* Properties of the synthetic system message.                             *)
(***************************************************************************)
SyntheticMessages ==
    {Msg("system", "connectedBoth"), Msg("system", "connectedMcp"),
     Msg("system", "connectedOpenApi")}

IsSyntheticMessage(m) == m \in SyntheticMessages

BootstrapCallsOf(steps) ==
    SelectSeq(AllToolCalls(steps), LAMBDA c : c.toolName \in BootstrapTools)

\* C31: the scan of a round's steps appends to the history exactly one
\* synthetic system message when the round has one or more bootstrap calls
\* (the message naming what was connected: a server, a description, or both)
\* and nothing when it has none; no other step appends such a message, so a
\* returned history has as many of them as the run had rounds with a
\* bootstrap call.
C31_OneSyntheticMessagePerBootstrapRound ==
    /\ [][(pc[Main] = "detect" /\ pc'[Main] = "decide")
            => LET calls == BootstrapCallsOf(Top.steps)
                   mounts == \E k \in 1..Len(calls) : IsMountCall(calls[k])
                   converts == \E k \in 1..Len(calls) : ~IsMountCall(calls[k])
               IN  agentContext'.conversation_history
                      = History
                        \o (IF calls = <<>> THEN <<>>
                            ELSE <<Msg("system", IF mounts /\ converts THEN "connectedBoth"
                                                 ELSE IF mounts THEN "connectedMcp"
                                                 ELSE "connectedOpenApi")>>)]_vars
    /\ [][(rounds >= 1 /\ pc[Main] # "detect")
            => Count(agentContext'.conversation_history, IsSyntheticMessage)
                  = Count(History, IsSyntheticMessage)]_vars
    /\ [](ResultOk => Count(result[Main].agentContext[1].conversation_history,
                            IsSyntheticMessage) = bootstrapRounds)

\* a round with two bootstrap calls was scanned and left one synthetic message
C31_Witness ==
    /\ pc[Main] = "decide" /\ rounds = 1
    /\ Len(BootstrapCallsOf(Top.steps)) = 2
    /\ Count(History, IsSyntheticMessage) = 1
    /\ History[Len(History)] = Msg("system", "connectedBoth")

(***************************************************************************)
(* Properties of the token-decode entries.                                 *)
(***************************************************************************)
\* an entry made for a call of a token-issuing tool whose outcome text ends
\* in a well-formed signed token
IsTokenEntry(e) == e.tool \in TokenTools /\ e.result = "jwt"

\* the entries the calls themselves give, whatever their outcome: one for a
\* step without calls, one for each call, with the call's name and outcome
RECURSIVE CallEntriesOf(_)
CallEntriesOf(steps) ==
    IF steps = <<>> THEN <<>>
    ELSE (IF Len(Head(steps).toolCalls) = 0 THEN <<[tool |-> "thinking", result |-> "null"]>>
          ELSE [k \in 1..Len(Head(steps).toolCalls) |->
                   [tool |-> Head(steps).toolCalls[k].toolName,
                    result |-> Head(steps).toolResults[k]]])
         \o CallEntriesOf(Tail(steps))

\* C32: in the entries formatted for a round, a token-decode entry stands
\* right after an entry if and only if that entry is for a call of a
\* token-issuing tool whose outcome holds a well-formed signed token; with
\* the decode entries taken out, the entries are those of the calls, all of
\* them and in order, whatever the outcomes were (missing, or without a
\* well-formed token); and formatting always goes on to the scan of the steps.
C32_DecodeEntryIffValidToken ==
    /\ [](\A r \in 1..Len(roundSteps) :
            LET entries == formatOutput(roundSteps[r], <<>>)
                plain == PlainEntries(roundSteps[r])
            IN  /\ \A k \in 1..Len(entries) :
                      /\ IsDecodeEntry(entries[k]) => (k > 1 /\ IsTokenEntry(entries[k - 1]))
                      /\ IsTokenEntry(entries[k])
                            => (k < Len(entries) /\ IsDecodeEntry(entries[k + 1]))
                /\ [k \in 1..Len(plain) |-> [tool |-> plain[k].tool, result |-> plain[k].result]]
                      = CallEntriesOf(roundSteps[r]))
    /\ [][pc[Main] = "formatOutput"
            => /\ pc'[Main] = "detect"
               /\ frames'[Len(frames')].formattedSteps
                     = Top.initialFormattedSteps \o formatOutput(Top.steps, <<>>)]_vars

\* a round with a token call whose outcome holds a well-formed token, a token
\* call without an outcome, and a step after them: one decode entry, right
\* after the first call's entry, and the later entries in place
C32_Witness ==
    /\ pc[Main] = "detect" /\ rounds = 1
    /\ LET entries == Top.formattedSteps
       IN  /\ Len(entries) = 4
           /\ IsTokenEntry(entries[1]) /\ IsDecodeEntry(entries[2])
           /\ entries[3].tool \in TokenTools /\ entries[3].result = "undefined"
           /\ entries[4].tool = "thinking" /\ ~IsDecodeEntry(entries[4])

\* the pretty text of a parsed body, written out: two spaces of indentation,
\* one member per line
PrettyText(response) ==
    IF response.body = "null" THEN <<"null">>
    ELSE IF response.body = "plainObject"
    THEN <<"{", "\n", " ", " ", "\"", "a", "\"", ":", " ", "1", "\n", "}">>
    ELSE <<"{", "\n", " ", " ", "\"", "error", "\"", ":", " ", "\"",
           response.error, "\"", "\n", "}">>

\* the JSON half of C33
JsonBodyReturnedPretty ==
    (/\ Done("execute")
     /\ conv.input # <<>>
     /\ conv.input[1].status \in 200..299
     /\ conv.input[1].contentTypeJson
     /\ conv.input[1].body # "unparsable")
        => conv.output[1].content[1].text = Pieces(PrettyText(conv.input[1]))

\* C33: on a 2xx response the executor returns the body as pretty JSON text
\* when the response is JSON, and the characters of the body, unchanged, when
\* the response is not JSON.
C33_PrettyJsonOrTextUnchanged ==
    /\ JsonBodyReturnedPretty
    /\ (/\ Done("execute")
        /\ conv.input # <<>>
        /\ conv.input[1].status \in 200..299
        /\ ~conv.input[1].contentTypeJson)
           => conv.output[1].content[1].text = Pieces(conv.input[1].text)

\* the system messages of the history that hold the text of a resource
ResourceMessages(history) ==
    Len(SelectSeq(history, LAMBDA msg : msg = Msg("system", "resource")))

\* the resource messages owed by the enumerations of log: all the resources
\* of a server whose enumeration succeeded, none for one that failed
RECURSIVE MessagesOwed(_)
MessagesOwed(log) ==
    IF log = <<>> THEN 0
    ELSE (IF Head(log).failed THEN 0 ELSE ServerResources(Head(log).url))
         + MessagesOwed(Tail(log))

\* the tools of a server whose enumeration failed in the round just built are
\* in the registry that build returned
FailedServersKeepTheirTools ==
    pc[Main] = "invokeModel"
       => \A e \in Range(readLog) :
             (e.round = rounds /\ e.failed)
                => \A n \in DOMAIN validTools(ServerTools(e.url)) :
                       n \in DOMAIN registry /\ registry[n] = e.url

\* C34: a failed resource enumeration adds no system message to the history,
\* also when some resources were read before the failure, and the tools of
\* that server stay in the registry.
C34_FailedEnumerationAddsNothing ==
    /\ ResourceMessages(agentContext.conversation_history) = MessagesOwed(readLog)
    /\ FailedServersKeepTheirTools

\* C35: an invocation of two or more rounds returns the text and the usage of
\* round 1; a call that resumes after its recursive call keeps its own text
\* and usage and takes only the steps of the document that call returned.
C35_AnswerOfFirstRound ==
    /\ []((ResultOk /\ rounds >= 2)
            => result[Main].answer = <<1>> /\ result[Main].usage = <<1>>)
    /\ [][(Len(frames) >= 2 /\ Len(frames') = Len(frames) - 1)
            => LET caller == Len(frames) - 1 IN
               /\ frames'[caller].answer = frames[caller].answer
               /\ frames'[caller].usage = frames[caller].usage
               /\ frames'[caller].formattedSteps = jsonRoundTrip(returned'[1].steps)
               /\ returned'[1].answer = <<Len(frames)>>]_vars

\* three rounds returned: the answer is that of round 1 and the trace holds
\* entries of the last round
C35_Witness ==
    /\ ResultOk
    /\ rounds = 3
    /\ result[Main].answer = <<1>>
    /\ Len(roundSteps[3]) > 0
    /\ Len(result[Main].steps) > Len(TraceOfRounds(SubSeq(roundSteps, 1, 2), 1))

\* where an invocation stands before it has left the quota gate
GateStates == {"idle", "start", "checkConnection", "checkLimit", "increment"}

PastTheGate ==
    /\ ~testMode
    /\ pc[Main] \notin GateStates
    /\ result[Main].kind \notin {"redisError", "quota"}

\* once past the gate nothing touches the counter, its expiry or the store
CounterUntouchedAfterGate ==
    [][pc[Main] \notin GateStates
          => usageCount' = usageCount /\ usageTtl' = usageTtl /\ gateLog' = gateLog]_vars

FirstOfRound(k) == k = 1 \/ connectLog[k - 1][1] # connectLog[k][1]

\* C37: every mounted server entry of the context has no header, and a
\* transport is opened with the skyfire-api-key header only to the static
\* server (the first server of a build), never to a mounted one.
C37_KeyOnlyToStaticServer ==
    /\ \A k \in 1..Len(agentContext.dynamically_mounted_server) :
           agentContext.dynamically_mounted_server[k].headers = {}
    /\ Len(headerLog) = Len(connectLog)
    /\ \A k \in 1..Len(connectLog) :
           headerLog[k] # {}
              => /\ headerLog[k] = {"skyfire-api-key"}
                 /\ FirstOfRound(k)
                 /\ connectLog[k][2] \in SkyfireMcpUrls
                 /\ Len(agentContext.available_mcp_servers) > 0
                 /\ connectLog[k][2] = agentContext.available_mcp_servers[1].url

\* a round opened a transport to the static server with the key and then one
\* to the mounted server without any header
C37_Witness ==
    /\ Len(connectLog) >= 3
    /\ connectLog[2][1] = 2 /\ connectLog[3][1] = 2
    /\ headerLog[2] = {"skyfire-api-key"}
    /\ connectLog[3][2] = <<"https://seller.example", "/mcp">>
    /\ headerLog[3] = {}
    /\ agentContext.dynamically_mounted_server
          = <<[url |-> <<"https://seller.example", "/mcp">>, headers |-> {}]>>

\* the positions of the user messages of a history, in order
UserPositions(history) ==
    SelectSeq([k \in 1..Len(history) |-> k], LAMBDA k : history[k].role = "user")

\* the resources the enumerations of log read
RECURSIVE ResourcesRead(_)
ResourcesRead(log) ==
    IF log = <<>> THEN 0 ELSE Head(log).read + ResourcesRead(Tail(log))

ReadInRound(r) == ResourcesRead(SelectSeq(readLog, LAMBDA e : e.round = r))

\* the resource messages of a history at the positions from..to
ResourceMessagesBetween(history, from, to) ==
    Cardinality({k \in from..to : history[k] = Msg("system", "resource")})

\* every enumeration so far was of the static server and succeeded
OnlyStaticServerRead ==
    \A e \in Range(readLog) : e.url[1] = "https://mcp.skyfire.xyz" /\ ~e.failed

\* C38: every round's build appends the text of every resource it reads as a
\* system message, before that round's user message: the messages between
\* the user message of round r - 1 and that of round r hold one resource
\* message for each resource read in round r, and after k rounds over the
\* static server alone, readable in each, the history holds k of them.
C38_ResourceMessageEveryRound ==
    rounds >= 1 =>
       LET history == agentContext.conversation_history
           users == UserPositions(history)
       IN  /\ \A r \in 1..Len(users) :
                 /\ r <= rounds
                 /\ ResourceMessagesBetween(history,
                        IF r = 1 THEN 1 ELSE users[r - 1], users[r]) = ReadInRound(r)
           /\ (OnlyStaticServerRead /\ pc[Main] = "generateText")
                 => /\ Len(users) = rounds
                    /\ ResourceMessages(history) = rounds

\* the third round's user message is in the history, behind three resource
\* messages of the static server, one for each round
C38_Witness ==
    /\ rounds = 3
    /\ pc[Main] = "generateText"
    /\ OnlyStaticServerRead
    /\ Len(readLog) = 3
    /\ ResourceMessages(agentContext.conversation_history) = 3
    /\ ResourceMessagesBetween(agentContext.conversation_history,
           UserPositions(agentContext.conversation_history)[2],
           UserPositions(agentContext.conversation_history)[3]) = 1

\* the headers that carry a credential
CredentialHeaders == {"Authorization", "X-API-Key", "skyfire_kya_pay_token"}

\* the entry carries a URL and no authentication value, and the converter
\* made for it has the empty credential
EntryHasNoCredential(entry) == entry.authHeader = <<>> /\ apiKeyOf(entry) = ""

\* in the loop every entry of openApiSpecs is one detection added
EntriesCarryNoCredential ==
    \A j \in 1..Len(agentContext.openApiSpecs) :
        agentContext.openApiSpecs[j] \in DetectedEntries

\* C39 as stated: an entry added by detection carries no authentication
\* value, and the only credential header an executor of its tools sends is
\* the pay token of the call's arguments.
C39_OnlyPayTokenHeader ==
    Done("requestHeaders")
       => /\ EntryHasNoCredential(conv.input.entry)
          /\ \A h \in DOMAIN conv.output[1] \cap CredentialHeaders :
                 /\ h = "skyfire_kya_pay_token"
                 /\ conv.output[1][h] = <<conv.input.args[h]>>

\* C39, amended: an entry added by detection carries no authentication value,
\* so no header of a request is derived from a security scheme: besides
\* Content-Type, every header is the pay token of the call's arguments or a
\* header parameter the description declares, with the value the call's
\* arguments give it.
C39_HeadersFromArgumentsOnly ==
    Done("requestHeaders")
       => LET x == conv.input
              headers == conv.output[1]
          IN  /\ EntryHasNoCredential(x.entry)
              /\ headers["Content-Type"] = <<"application/json">>
              /\ \A h \in DOMAIN headers \ {"Content-Type"} :
                     /\ h \in DOMAIN x.args
                     /\ headers[h] = <<x.args[h]>>
                     /\ \/ h = "skyfire_kya_pay_token" /\ x.args[h] # ""
                        \/ \E k \in 1..Len(x.parameters) :
                              x.parameters[k] = [name |-> h, in |-> "header"]
              /\ ("skyfire_kya_pay_token" \in DOMAIN x.args
                    /\ x.args["skyfire_kya_pay_token"] # "")
                     => "skyfire_kya_pay_token" \in DOMAIN headers

\* an operation under a bearer scheme, called with a pay token: the request
\* carries the token and no Authorization header
C39_Witness ==
    /\ Done("requestHeaders")
    /\ conv.input.schemes = <<[type |-> "http", scheme |-> "bearer", in |-> "", name |-> ""]>>
    /\ conv.input.parameters = <<>>
    /\ conv.input.args = [a \in {"skyfire_kya_pay_token"} |-> "v"]
    /\ conv.output[1] = [h \in {"Content-Type", "skyfire_kya_pay_token"} |->
                            IF h = "Content-Type" THEN <<"application/json">> ELSE <<"v">>]


====
